---- MODULE Spec2Model ----
(***************************************************************************)
(* A model of the pythonvm-rust interpreter: the object store, the frames  *)
(* and call stack, the dispatch loop of run_code, name resolution,         *)
(* function-call binding and exception unwinding.                          *)
(*                                                                         *)
(* Conventions                                                             *)
(*   Option<T>      None is <<>>, Some(x) is <<x>>.                        *)
(*   Vec<T>         a sequence; the last element is the top of a stack.    *)
(*   HashMap<String, ObjectRef>   a function from a finite set of strings. *)
(*   ObjectRef      its id, a natural number.                              *)
(*   panic!         the run stops: status = "panic", error = the kind.     *)
(***************************************************************************)
EXTENDS Integers, Sequences, FiniteSets, TLC

VARIABLES
    store,            \* ObjectStore.all_objects : ObjectRef -> Object
    CURRENT_REF_ID,   \* the process-wide ObjectRef counter
    CURRENT_VERSION,  \* the process-wide Object version counter
    call_stack,       \* Vec<Frame>, the last frame is the executing one
    modules,          \* State.modules : module name -> its globals dict
    status,           \* "running" | "Return" (PyResult::Return) | "panic"
    error,            \* the kind of the panic, "" while there is none
    result,           \* Some(ObjectRef) once run_code has returned
    stdout,           \* the bytes written to EnvProxy::stdout, one item per write
    instruction,      \* run_code's local: Some(the instruction last fetched)
    unwind_args,      \* Some(arguments of unwind and the call stack it was given)
                      \* if the last instruction called unwind, else None
    steps,            \* number of instructions executed so far
    other_store,      \* all_objects of a second ObjectStore of the process
    reserved,         \* the ObjectRefs ObjectRef::new returned to its caller
    reader,           \* the bytes the marshal reader has not consumed yet
    references,       \* the back-reference table of the marshal decoder
    decoder,          \* the InstructionDecoder and the instructions it has made
    phase             \* the position in call_main_code / run_module

vars == <<store, CURRENT_REF_ID, CURRENT_VERSION, call_stack, modules,
          status, error, result, stdout, instruction, unwind_args, steps,
          other_store, reserved, reader, references, decoder, phase>>

\* The state of the second store and of the marshal decoder; the
\* interpreter has a single store and runs after decoding is over.
aux == <<other_store, reserved, reader, references, decoder, phase>>
AuxInit ==
    /\ other_store = <<>>
    /\ reserved = {}
    /\ reader = <<>>
    /\ references = <<>>
    /\ decoder = <<>>
    /\ phase = ""

----------------------------------------------------------------------------
(* Bounds of the exploration. *)

\* At most MaxSteps instructions are executed in one run.
MaxSteps == 4
\* Depth of the call stack (a call that would exceed it is not explored).
MaxFrames == 2

----------------------------------------------------------------------------
(* Generic helpers. *)

None == <<>>
Some(x) == <<x>>
IsSome(o) == o # <<>>
Unwrap(o) == o[1]

Last(s) == s[Len(s)]
Front(s) == SubSeq(s, 1, Len(s) - 1)

EmptyDict == [k \in {} |-> 0]
\* HashMap::insert
Insert(d, k, v) == [x \in (DOMAIN d) \cup {k} |-> IF x = k THEN v ELSE d[x]]
\* HashMap::get
Get(d, k) == IF k \in DOMAIN d THEN Some(d[k]) ELSE None
\* Vec::get with a 0-based index
VecGet(v, i) == IF i >= 0 /\ i < Len(v) THEN Some(v[i + 1]) ELSE None

WORD_SIZE == 2

----------------------------------------------------------------------------
(* VarStack (varstack.rs): a vector, the top is the last element. *)

\* pop_many: None when count > len, else the count last items are drained.
pop_many(stack, count) ==
    IF count > Len(stack)
    THEN [ok |-> FALSE, stack |-> stack, items |-> <<>>]
    ELSE [ok |-> TRUE,
          stack |-> SubSeq(stack, 1, Len(stack) - count),
          items |-> SubSeq(stack, Len(stack) - count + 1, Len(stack))]

\* pop_n_pairs: pop_many(2*nb) chunked in (key, value) pairs.
pop_n_pairs(stack, nb) ==
    LET r == pop_many(stack, nb * 2)
    IN  [ok |-> r.ok, stack |-> r.stack,
         items |-> [i \in 1..(IF r.ok THEN nb ELSE 0) |->
                        <<r.items[2 * i - 1], r.items[2 * i]>>]]

----------------------------------------------------------------------------
(* Objects (objects/mod.rs). *)

\* ObjectContent variants.
CNone == [type |-> "None"]
CTrue == [type |-> "True"]
CFalse == [type |-> "False"]
CString(s) == [type |-> "String", s |-> s]
\* Int(u32): i is the number, or its U32 halves when it was unmarshalled.
CInt(i) == [type |-> "Int", i |-> i]
CTuple(v) == [type |-> "Tuple", v |-> v]
CList(v) == [type |-> "List", v |-> v]
CSet(v) == [type |-> "Set", v |-> v]
CFrozenSet(v) == [type |-> "FrozenSet", v |-> v]
CPrimitiveNamespace == [type |-> "PrimitiveNamespace"]
CDict(d) == [type |-> "Dict", d |-> d]
CCode(c) == [type |-> "Code", code |-> c]
CFunction(module_name, code, defaults) ==
    [type |-> "Function", module |-> module_name, code |-> code,
     defaults |-> defaults]
CModule(code) == [type |-> "Module", code |-> code]
CPrimitiveFunction(name) == [type |-> "PrimitiveFunction", name |-> name]
CClass(code) == [type |-> "Class", code |-> code]
CRandomAccessIterator(container, index, version) ==
    [type |-> "RandomAccessIterator", container |-> container,
     index |-> index, version |-> version]
COtherObject == [type |-> "OtherObject"]

\* Object::new_instance, with the version drawn by Object::new_version.
new_instance(version, name, class, content) ==
    [version |-> version, name |-> name, content |-> content,
     class |-> class, bases |-> None]

\* Object::new_class
new_class(version, name, code, metaclass, bases) ==
    [version |-> version, name |-> Some(name), content |-> CClass(code),
     class |-> metaclass, bases |-> Some(bases)]

(* PrimitiveObjects::new: the references of the bootstrap objects, in the   *)
(* order ObjectRef::new hands them out from a fresh counter.               *)
object == 0
type_ == 1
none_type == 2
none == 3
int_type == 4
bool_type == 5
true_obj == 6
false_obj == 7
tuple_type == 8
list_type == 9
set_type == 10
frozenset_type == 11
bytes_type == 12
str_type == 13
iterator_type == 14
function_type == 15
code_type == 16
module == 17
baseexception == 18
processorerror == 19
exception == 20
nameerror == 21
attributeerror == 22
typeerror == 23
stopiteration == 24
lookuperror == 25
keyerror == 26

\* The store PrimitiveObjects::new builds; every object's version is the
\* value of the version counter when it was made, which here equals its id.
PrimitiveObjects ==
    LET cls(id, name, bases) == new_class(id, name, None, type_, bases)
    IN  (object :> [version |-> object, name |-> Some("object"),
                    content |-> COtherObject, class |-> type_, bases |-> Some(<<>>)])
     @@ (type_ :> [version |-> type_, name |-> Some("type"),
                   content |-> COtherObject, class |-> type_,
                   bases |-> Some(<<object>>)])
     @@ (none_type :> cls(none_type, "nonetype", <<object>>))
     @@ (none :> new_instance(none, Some("None"), none_type, CNone))
     @@ (int_type :> cls(int_type, "int", <<object>>))
     @@ (bool_type :> cls(bool_type, "bool", <<int_type>>))
     @@ (true_obj :> new_instance(true_obj, Some("True"), bool_type, CTrue))
     @@ (false_obj :> new_instance(false_obj, Some("False"), bool_type, CFalse))
     @@ (tuple_type :> cls(tuple_type, "tuple", <<object>>))
     @@ (list_type :> cls(list_type, "list", <<object>>))
     @@ (set_type :> cls(set_type, "set", <<object>>))
     @@ (frozenset_type :> cls(frozenset_type, "frozenset", <<object>>))
     @@ (bytes_type :> cls(bytes_type, "bytes", <<object>>))
     @@ (str_type :> cls(str_type, "str", <<object>>))
     @@ (iterator_type :> cls(iterator_type, "iterator", <<object>>))
     @@ (function_type :> cls(function_type, "function", <<object>>))
     @@ (code_type :> cls(code_type, "code", <<object>>))
     @@ (module :> cls(module, "module", <<object>>))
     @@ (baseexception :> cls(baseexception, "BaseException", <<object>>))
     @@ (processorerror :> cls(processorerror, "ProcessorError", <<baseexception>>))
     @@ (exception :> cls(exception, "Exception", <<baseexception>>))
     @@ (nameerror :> cls(nameerror, "NameError", <<exception>>))
     @@ (attributeerror :> cls(attributeerror, "AttributeError", <<exception>>))
     @@ (typeerror :> cls(typeerror, "TypeError", <<exception>>))
     @@ (stopiteration :> cls(stopiteration, "StopIteration", <<exception>>))
     @@ (lookuperror :> cls(lookuperror, "LookupError", <<exception>>))
     @@ (keyerror :> cls(keyerror, "KeyError", <<lookuperror>>))

\* Number of objects PrimitiveObjects::new allocates.
NbPrimitiveObjects == 27

----------------------------------------------------------------------------
(* The machine state the interpreter's functions work on: State, the call  *)
(* stack and the two process-wide counters, plus the panic (if any) that   *)
(* stopped the function.                                                   *)

Machine ==
    [store |-> store, ref_id |-> CURRENT_REF_ID, version |-> CURRENT_VERSION,
     call_stack |-> call_stack, modules |-> modules, stdout |-> stdout,
     panic |-> "", result |-> None, unwind_args |-> None]

Panic(m, kind) == [m EXCEPT !.panic = kind]

\* State::raise_processor_error: a panic carrying the ProcessorError.
raise_processor_error(m, err) == Panic(m, err)

\* ObjectStore::allocate of Object::new_instance(name, class, content):
\* new_version draws the version, ObjectRef::new draws the reference.
allocate(m, name, class, content) ==
    [m EXCEPT !.store = (m.ref_id :> new_instance(m.version, name, class, content)) @@ @,
              !.ref_id = @ + 1,
              !.version = @ + 1]

\* The reference the next allocate returns.
NextRef(m) == m.ref_id

\* The executing frame and its replacement.
Top(m) == Last(m.call_stack)
SetTop(m, frame) == [m EXCEPT !.call_stack = Append(Front(@), frame)]
Push(m, ref) == SetTop(m, [Top(m) EXCEPT !.var_stack = Append(@, ref)])

----------------------------------------------------------------------------
(* Frames (processor/frame.rs). *)

\* Block variants.
Loop(begin, end) == [type |-> "Loop", begin |-> begin, end |-> end]
TryExcept(begin, end) == [type |-> "TryExcept", begin |-> begin, end |-> end]
ExceptPopGoto(pattern, nb_pop, target) ==
    [type |-> "ExceptPopGoto", pattern |-> pattern, nb_pop |-> nb_pop,
     target |-> target]

(* The Rc<RefCell<HashMap>> of a frame's locals.  A module frame holds the  *)
(* very Rc registered in State.modules (module = Some(name)); a function    *)
(* frame holds an Rc of its own (module = None, the map is in the frame).   *)
SharedLocals(module_name) == [module |-> Some(module_name), map |-> EmptyDict]
OwnLocals(map) == [module |-> None, map |-> map]

\* frame.locals.borrow()
Locals(m, frame) ==
    IF IsSome(frame.locals.module)
    THEN m.modules[Unwrap(frame.locals.module)]
    ELSE frame.locals.map

\* frame.locals.borrow_mut().insert(name, obj_ref), for the executing frame
InsertLocal(m, name, obj_ref) ==
    LET frame == Top(m)
    IN  IF IsSome(frame.locals.module)
        THEN [m EXCEPT !.modules[Unwrap(frame.locals.module)] = Insert(@, name, obj_ref)]
        ELSE SetTop(m, [frame EXCEPT !.locals.map = Insert(@, name, obj_ref)])

(* Frame::new.  The decoded instruction list is an input of the run: the    *)
(* frame keeps its length (code.ninstructions) and the instruction at the   *)
(* program counter is drawn when it is fetched.                            *)
NewFrame(obj, code, locals) ==
    [object |-> obj, var_stack |-> <<>>, block_stack |-> <<>>,
     locals |-> locals, code |-> code, program_counter |-> 0]

----------------------------------------------------------------------------
(* primitives/mod.rs: issubclass and isinstance. *)

RECURSIVE issubclass_visit(_, _, _, _)
\* The while-let loop of native_issubclass over the to_visit queue.
issubclass_visit(objs, to_visit, visited, second) ==
    IF to_visit = <<>> THEN FALSE
    ELSE LET candidate == Head(to_visit)
             rest == Tail(to_visit)
         IN  IF candidate \in visited
             THEN issubclass_visit(objs, rest, visited, second)
             ELSE IF candidate = second THEN TRUE
             ELSE issubclass_visit(
                      objs,
                      rest \o (IF IsSome(objs[candidate].bases)
                               THEN Unwrap(objs[candidate].bases) ELSE <<>>),
                      visited \cup {candidate}, second)

native_issubclass(objs, first, second) ==
    issubclass_visit(objs, <<first>>, {}, second)

native_isinstance(objs, first, second) ==
    native_issubclass(objs, objs[first].class, second)

----------------------------------------------------------------------------
(* state.rs: unwind, raise, return_value. *)

\* unwind_block_stack with an `if let` for the `while let`: only the top
\* marker of the frame is looked at.
unwind_block_stack_top_only(objs, frame, traceback, exc, value) ==
    IF frame.block_stack = <<>> THEN [found |-> FALSE, frame |-> frame]
    ELSE LET block == Last(frame.block_stack)
             popped == [frame EXCEPT !.block_stack = Front(@)]
         IN  CASE block.type = "Loop" -> [found |-> FALSE, frame |-> popped]
               [] block.type = "TryExcept" ->
                    [found |-> TRUE,
                     frame |-> [popped EXCEPT
                        !.block_stack = Append(@, TryExcept(block.begin, block.end)),
                        !.program_counter = block.end,
                        !.var_stack = @ \o <<traceback, value, exc,
                                             traceback, value, exc>>]]
               [] block.type = "ExceptPopGoto" ->
                    IF native_isinstance(objs, exc, block.pattern)
                    THEN [found |-> TRUE,
                          frame |-> [popped EXCEPT
                             !.var_stack = pop_many(@, block.nb_pop).stack,
                             !.program_counter = block.target]]
                    ELSE [found |-> FALSE, frame |-> popped]

RECURSIVE unwind_block_stack_single_triple(_, _, _, _, _)
\* unwind_block_stack pushing the exception triple once and leaving the
\* TryExcept marker popped.
unwind_block_stack_single_triple(objs, frame, traceback, exc, value) ==
    IF frame.block_stack = <<>> THEN [found |-> FALSE, frame |-> frame]
    ELSE LET block == Last(frame.block_stack)
             popped == [frame EXCEPT !.block_stack = Front(@)]
         IN  CASE block.type = "Loop" ->
                    unwind_block_stack_single_triple(objs, popped, traceback, exc, value)
               [] block.type = "TryExcept" ->
                    [found |-> TRUE,
                     frame |-> [popped EXCEPT
                        !.program_counter = block.end,
                        !.var_stack = @ \o <<traceback, value, exc>>]]
               [] block.type = "ExceptPopGoto" ->
                    IF native_isinstance(objs, exc, block.pattern)
                    THEN [found |-> TRUE,
                          frame |-> [popped EXCEPT
                             !.var_stack = pop_many(@, block.nb_pop).stack,
                             !.program_counter = block.target]]
                    ELSE unwind_block_stack_single_triple(objs, popped, traceback,
                                                          exc, value)

RECURSIVE unwind_block_stack(_, _, _, _, _)
(* The inner loop of unwind over one frame's block stack.  Returns whether  *)
(* a handler was found and the frame as the loop left it.                  *)
unwind_block_stack(objs, frame, traceback, exc, value) ==
    IF frame.block_stack = <<>> THEN [found |-> FALSE, frame |-> frame]
    ELSE LET block == Last(frame.block_stack)
             popped == [frame EXCEPT !.block_stack = Front(@)]
         IN  CASE block.type = "Loop" ->
                    unwind_block_stack(objs, popped, traceback, exc, value)
               [] block.type = "TryExcept" ->
                    [found |-> TRUE,
                     frame |-> [popped EXCEPT
                        !.block_stack = Append(@, TryExcept(block.begin, block.end)),
                        !.program_counter = block.end,
                        !.var_stack = @ \o <<traceback, value, exc,
                                             traceback, value, exc>>]]
               [] block.type = "ExceptPopGoto" ->
                    IF native_isinstance(objs, exc, block.pattern)
                    THEN [found |-> TRUE,
                          frame |-> [popped EXCEPT
                             !.var_stack = pop_many(@, block.nb_pop).stack,
                             !.program_counter = block.target]]
                    ELSE unwind_block_stack(objs, popped, traceback, exc, value)

RECURSIVE unwind_call_stack_keeps_bottom(_, _, _, _, _)
\* unwind_call_stack that panics once the outermost frame has no handler,
\* leaving that frame on the call stack.
unwind_call_stack_keeps_bottom(objs, frames, traceback, exc, value) ==
    IF frames = <<>> THEN [call_stack |-> <<>>, panic |-> TRUE]
    ELSE LET r == unwind_block_stack(objs, Last(frames), traceback, exc, value)
         IN  IF r.found
             THEN [call_stack |-> Append(Front(frames), r.frame), panic |-> FALSE]
             ELSE IF Len(frames) = 1
             THEN [call_stack |-> <<r.frame>>, panic |-> TRUE]
             ELSE unwind_call_stack_keeps_bottom(objs, Front(frames), traceback,
                                                 exc, value)

RECURSIVE unwind_call_stack(_, _, _, _, _)
\* The outer loop of unwind: panic = TRUE when the call stack is exhausted.
unwind_call_stack(objs, frames, traceback, exc, value) ==
    IF frames = <<>> THEN [call_stack |-> <<>>, panic |-> TRUE]
    ELSE LET r == unwind_block_stack(objs, Last(frames), traceback, exc, value)
         IN  IF r.found
             THEN [call_stack |-> Append(Front(frames), r.frame), panic |-> FALSE]
             ELSE unwind_call_stack(objs, Front(frames), traceback, exc, value)

unwind(m, traceback, exc, value) ==
    LET r == unwind_call_stack(m.store, m.call_stack, traceback, exc, value)
    IN  [m EXCEPT !.call_stack = r.call_stack,
                  !.panic = IF r.panic THEN "UncaughtException" ELSE @,
                  !.unwind_args = Some([traceback |-> traceback, exception |-> exc,
                                        value |-> value,
                                        call_stack |-> m.call_stack])]

raise(m, exc_class, msg) ==
    LET exc == NextRef(m)
        m1 == allocate(m, None, exc_class, CString(msg))
    IN  unwind(m1, none, exc, none)

\* return_value that drops the result when a caller remains.
return_value_dropped(m, res) == m

return_value(m, res) ==
    IF m.call_stack = <<>> THEN m ELSE Push(m, res)

----------------------------------------------------------------------------
(* Code (objects/mod.rs). A Code is a record                               *)
(*   [argcount, kwonlyargcount, flags, consts, names, varnames, name,      *)
(*    ninstructions]                                                       *)
(* where ninstructions is the length of the instruction list decoded from  *)
(* its bytecode.                                                           *)

\* Code::co_varargs: flags & 0x4 != 0
co_varargs(code) == (code.flags \div 4) % 2 = 1
\* flags & 0x8 != 0
co_varkwargs(code) == (code.flags \div 8) % 2 = 1

\* The name of the *args parameter: the one after the declared parameters.
get_varargs_name(code) ==
    IF co_varargs(code)
    THEN Some(code.varnames[code.argcount + code.kwonlyargcount + 1])
    ELSE None

\* The name of the **kwargs parameter: the one after *args, if any.
get_varkwargs_name(code) ==
    IF co_varkwargs(code)
    THEN Some(code.varnames[code.argcount + code.kwonlyargcount
                            + (IF co_varargs(code) THEN 1 ELSE 0) + 1])
    ELSE None

\* The declared parameter names, which a keyword argument may bind.
keywords(code) ==
    {code.varnames[i] : i \in 1..(code.argcount + code.kwonlyargcount)}

\* ObjectRef::module: the module a function or module object belongs to.
module_of(objs, obj_ref) ==
    IF objs[obj_ref].content.type = "Function"
    THEN objs[obj_ref].content.module
    ELSE Unwrap(objs[obj_ref].name)

----------------------------------------------------------------------------
(* processor/mod.rs: load_name. *)

(* Returns the machine (load_name allocates the two synthetic objects) and *)
(* the Option<ObjectRef> it found.                                         *)
load_name(m, frame, name) ==
    IF name = "__primitives__"
    THEN [m |-> allocate(m, Some("__primitives__"), object, CPrimitiveNamespace),
          res |-> Some(NextRef(m))]
    ELSE IF name = "__name__"
    THEN [m |-> allocate(m, None, str_type, CString("<module>")),
          res |-> Some(NextRef(m))]
    ELSE IF name \in DOMAIN Locals(m, frame)
    THEN [m |-> m, res |-> Some(Locals(m, frame)[name])]
    ELSE IF "builtins" \in DOMAIN m.modules /\ name \in DOMAIN m.modules["builtins"]
    THEN [m |-> m, res |-> Some(m.modules["builtins"][name])]
    ELSE IF module_of(m.store, frame.object) \in DOMAIN m.modules
            /\ name \in DOMAIN m.modules[module_of(m.store, frame.object)]
    THEN [m |-> m, res |-> Some(m.modules[module_of(m.store, frame.object)][name])]
    ELSE [m |-> m, res |-> None]

----------------------------------------------------------------------------
(* primitives/mod.rs: the primitive functions.  Each takes the machine and *)
(* the positional arguments.                                               *)

\* write_stdout that ends what it writes with a newline of its own.
write_stdout_with_newline(m, args) ==
    IF args = <<>> THEN Panic(m, "NotEnoughArguments")
    ELSE LET c == m.store[args[1]].content
         IN  IF c.type # "String" THEN Panic(m, "BadArgument")
             ELSE return_value([m EXCEPT !.stdout = Append(Append(@, c.s), "\n")],
                               none)

\* The first argument of write_stdout, as the bytes it writes.
write_stdout(m, args) ==
    IF args = <<>> THEN Panic(m, "NotEnoughArguments")
    ELSE LET c == m.store[args[1]].content
             written ==
                 CASE c.type = "String" -> Some(c.s)
                   [] c.type = "Int" -> Some(c.i)
                   [] c.type = "True" -> Some("True")
                   [] c.type = "False" -> Some("False")
                   [] OTHER -> None
         IN  IF ~IsSome(written) THEN Panic(m, "BadArgument")
             ELSE LET m1 == [m EXCEPT !.stdout = Append(@, Unwrap(written))]
                  IN  IF Len(args) > 1 THEN Panic(m1, "TooManyArguments")
                      ELSE return_value(m1, none)

build_class(m, args) ==
    IF args = <<>> THEN Panic(m, "NotEnoughArguments")
    ELSE IF m.store[args[1]].content.type # "Function" THEN Panic(m, "BadArgument")
    ELSE IF Len(args) < 2 THEN Panic(m, "NotEnoughArguments")
    ELSE IF m.store[args[2]].content.type # "String" THEN Panic(m, "BadArgument")
    ELSE LET code == m.store[args[1]].content.code
             name == m.store[args[2]].content.s
             rest == SubSeq(args, 3, Len(args))
             bases == IF rest = <<>> THEN <<object>> ELSE rest
             cls == new_class(m.version, name, Some(code), type_, bases)
             m1 == [m EXCEPT !.store = @ @@ (m.ref_id :> cls),
                             !.ref_id = @ + 1, !.version = @ + 1]
         IN  return_value(m1, NextRef(m))

issubclass(m, args) ==
    IF Len(args) # 2 THEN Panic(m, "BadArgumentCount")
    ELSE IF native_issubclass(m.store, args[1], args[2])
         THEN return_value(m, true_obj)
         ELSE return_value(m, false_obj)

isinstance(m, args) ==
    IF Len(args) # 2 THEN Panic(m, "BadArgumentCount")
    ELSE IF native_isinstance(m.store, args[1], args[2])
         THEN return_value(m, true_obj)
         ELSE return_value(m, false_obj)

\* iter without the comparison of the versions.
iter_unchecked(m, args) ==
    IF Len(args) # 1 THEN Panic(m, "BadArgumentCount")
    ELSE LET iterator_ref == Last(args)
             iterator == m.store[iterator_ref]
         IN  IF iterator.content.type = "RandomAccessIterator"
             THEN LET container_ref == iterator.content.container
                      index == iterator.content.index
                      container_version == iterator.content.version
                      container_obj == m.store[container_ref]
                  IN  IF container_obj.content.type \notin {"List", "Tuple"}
                      THEN Panic(m, "UnsupportedContainer")
                      ELSE LET value == VecGet(container_obj.content.v, index)
                           IN  IF IsSome(value)
                               THEN return_value(
                                       [m EXCEPT !.store[iterator_ref].content =
                                           CRandomAccessIterator(container_ref,
                                               index + 1, container_version)],
                                       Unwrap(value))
                               ELSE raise(m, stopiteration, "StopIteration instance")
             ELSE LET exc == NextRef(m)
                      m1 == allocate(m, None, typeerror, COtherObject)
                  IN  raise(m1, exc, "is not an iterator")

\* One step of an iterator.
iter(m, args) ==
    IF Len(args) # 1 THEN Panic(m, "BadArgumentCount")
    ELSE LET iterator_ref == Last(args)
             iterator == m.store[iterator_ref]
         IN  IF iterator.content.type = "RandomAccessIterator"
             THEN LET container_ref == iterator.content.container
                      index == iterator.content.index
                      container_version == iterator.content.version
                      container == m.store[container_ref]
                  IN  IF container.version # container_version
                      THEN Panic(m, "ContainerChanged")
                      ELSE IF container.content.type \notin {"List", "Tuple"}
                      THEN Panic(m, "UnsupportedContainer")
                      ELSE LET value == VecGet(container.content.v, index)
                           IN  IF IsSome(value)
                               THEN return_value(
                                       [m EXCEPT !.store[iterator_ref].content =
                                           CRandomAccessIterator(container_ref,
                                               index + 1, container_version)],
                                       Unwrap(value))
                               ELSE raise(m, stopiteration, "StopIteration instance")
             ELSE LET exc == NextRef(m)
                      m1 == allocate(m, None, typeerror, COtherObject)
                  IN  raise(m1, exc, "is not an iterator")

\* get_default_primitives: the registry of primitive functions.
primitive_functions == {"write_stdout", "build_class", "issubclass",
                        "isinstance", "iter"}

call_primitive(m, name, args) ==
    CASE name = "write_stdout" -> write_stdout(m, args)
      [] name = "build_class" -> build_class(m, args)
      [] name = "issubclass" -> issubclass(m, args)
      [] name = "isinstance" -> isinstance(m, args)
      [] name = "iter" -> iter(m, args)

----------------------------------------------------------------------------
(* processor/mod.rs: call_function. *)

\* ObjectRef::new_instance: a bare instance of the class.
class_new_instance(m, class_ref, args, kwargs) ==
    allocate(m, None, class_ref, COtherObject)

\* PrimitiveObjects::new_dict
new_dict(m, pairs) == allocate(m, None, object, CDict(pairs))

\* PrimitiveObjects::new_tuple
new_tuple(m, v) == allocate(m, None, tuple_type, CTuple(v))

\* bind_varargs that, without *args, only rejects positional arguments in
\* excess.
bind_varargs_accepts_fewer(m, code, defaults, args) ==
    IF IsSome(get_varargs_name(code))
    THEN IF code.argcount > Len(args)
         THEN [m |-> Panic(m, "ArgumentCount"), locals |-> defaults, args |-> args]
         ELSE LET starargs_name == Unwrap(get_varargs_name(code))
                  to_vararg == SubSeq(args, code.argcount + 1, Len(args))
                  m1 == new_tuple(m, to_vararg)
              IN  [m |-> IF starargs_name \in DOMAIN defaults
                         THEN Panic(m1, "AssertionFailed") ELSE m1,
                   locals |-> Insert(defaults, starargs_name, NextRef(m)),
                   args |-> SubSeq(args, 1, code.argcount)]
    ELSE IF code.argcount < Len(args)
         THEN [m |-> Panic(m, "ArgumentCount"), locals |-> defaults, args |-> args]
         ELSE [m |-> m, locals |-> defaults, args |-> args]

\* bind_varargs draining from argcount + 1: the first excess positional
\* argument is left out of the tuple.
bind_varargs_off_by_one(m, code, defaults, args) ==
    IF IsSome(get_varargs_name(code))
    THEN IF code.argcount > Len(args)
         THEN [m |-> Panic(m, "ArgumentCount"), locals |-> defaults, args |-> args]
         ELSE LET starargs_name == Unwrap(get_varargs_name(code))
                  to_vararg == SubSeq(args, code.argcount + 2, Len(args))
                  m1 == new_tuple(m, to_vararg)
              IN  [m |-> IF starargs_name \in DOMAIN defaults
                         THEN Panic(m1, "AssertionFailed") ELSE m1,
                   locals |-> Insert(defaults, starargs_name, NextRef(m)),
                   args |-> SubSeq(args, 1, code.argcount)]
    ELSE IF code.argcount # Len(args)
         THEN [m |-> Panic(m, "ArgumentCount"), locals |-> defaults, args |-> args]
         ELSE [m |-> m, locals |-> defaults, args |-> args]

(* The *args step: checks the number of positional arguments against       *)
(* argcount, drains the excess ones into a tuple and binds it.             *)
bind_varargs(m, code, defaults, args) ==
    IF IsSome(get_varargs_name(code))
    THEN IF code.argcount > Len(args)
         THEN [m |-> Panic(m, "ArgumentCount"), locals |-> defaults, args |-> args]
         ELSE LET starargs_name == Unwrap(get_varargs_name(code))
                  to_vararg == SubSeq(args, code.argcount + 1, Len(args))
                  m1 == new_tuple(m, to_vararg)
              IN  [m |-> IF starargs_name \in DOMAIN defaults
                         THEN Panic(m1, "AssertionFailed") ELSE m1,
                   locals |-> Insert(defaults, starargs_name, NextRef(m)),
                   args |-> SubSeq(args, 1, code.argcount)]
    ELSE IF code.argcount # Len(args)
         THEN [m |-> Panic(m, "ArgumentCount"), locals |-> defaults, args |-> args]
         ELSE [m |-> m, locals |-> defaults, args |-> args]

RECURSIVE bind_keywords_drops_unknown(_, _, _, _, _)
\* bind_keywords that forgets the keywords naming no declared parameter.
bind_keywords_drops_unknown(objs, code, kwargs, locals, remaining_kwargs) ==
    IF kwargs = <<>>
    THEN [panic |-> "", locals |-> locals, remaining_kwargs |-> remaining_kwargs]
    ELSE LET key == Head(kwargs)[1]
             value == Head(kwargs)[2]
         IN  IF objs[key].content.type # "String"
             THEN [panic |-> "KeywordNotString", locals |-> locals,
                   remaining_kwargs |-> remaining_kwargs]
             ELSE IF objs[key].content.s \in keywords(code)
             THEN bind_keywords_drops_unknown(objs, code, Tail(kwargs),
                                Insert(locals, objs[key].content.s, value),
                                remaining_kwargs)
             ELSE bind_keywords_drops_unknown(objs, code, Tail(kwargs), locals,
                                              remaining_kwargs)

RECURSIVE bind_keywords(_, _, _, _, _)
(* The loop over kwargs: a keyword naming a declared parameter is bound,   *)
(* the others are kept for **kwargs.                                       *)
bind_keywords(objs, code, kwargs, locals, remaining_kwargs) ==
    IF kwargs = <<>>
    THEN [panic |-> "", locals |-> locals, remaining_kwargs |-> remaining_kwargs]
    ELSE LET key == Head(kwargs)[1]
             value == Head(kwargs)[2]
         IN  IF objs[key].content.type # "String"
             THEN [panic |-> "KeywordNotString", locals |-> locals,
                   remaining_kwargs |-> remaining_kwargs]
             ELSE IF objs[key].content.s \in keywords(code)
             THEN bind_keywords(objs, code, Tail(kwargs),
                                Insert(locals, objs[key].content.s, value),
                                remaining_kwargs)
             ELSE bind_keywords(objs, code, Tail(kwargs), locals,
                                Append(remaining_kwargs, <<key, value>>))

RECURSIVE bind_positional(_, _, _)
\* for (argname, argvalue) in code.varnames.iter().zip(args)
bind_positional(varnames, args, locals) ==
    IF varnames = <<>> \/ args = <<>> THEN locals
    ELSE bind_positional(Tail(varnames), Tail(args),
                         Insert(locals, Head(varnames), Head(args)))

\* The ObjectContent::Function arm of call_function, for a code object.
call_bytecode(m, func_ref, code, defaults, args, kwargs) ==
    LET va == bind_varargs(m, code, defaults, args)
    IN  IF va.m.panic # "" THEN va.m
        ELSE LET kw == bind_keywords(va.m.store, code, kwargs, va.locals, <<>>)
             IN  IF kw.panic # "" THEN Panic(va.m, kw.panic)
                 ELSE LET has_kw == IsSome(get_varkwargs_name(code))
                          m2 == IF has_kw THEN new_dict(va.m, kw.remaining_kwargs)
                                ELSE va.m
                          locals2 == IF has_kw
                                     THEN Insert(kw.locals,
                                                 Unwrap(get_varkwargs_name(code)),
                                                 NextRef(va.m))
                                     ELSE kw.locals
                      IN  IF ~has_kw /\ kw.remaining_kwargs # <<>>
                          THEN Panic(va.m, "UnknownKeyword")
                          ELSE [m2 EXCEPT !.call_stack = Append(@,
                                   NewFrame(func_ref, code,
                                       OwnLocals(bind_positional(code.varnames,
                                                                 va.args, locals2))))]

call_function(m, func_ref, args, kwargs) ==
    LET c == m.store[func_ref].content
    IN  CASE c.type = "Class" ->
               Push(class_new_instance(m, func_ref, args, kwargs), NextRef(m))
          [] c.type = "Function" ->
               IF m.store[c.code].content.type = "Code"
               THEN call_bytecode(m, func_ref, m.store[c.code].content.code,
                                  c.defaults, args, kwargs)
               ELSE raise(m, processorerror, "Not a code object")
          [] c.type = "PrimitiveFunction" ->
               IF c.name \notin primitive_functions
               THEN raise(m, baseexception, "Unknown primitive")
               ELSE call_primitive(m, c.name, args)
          [] OTHER ->
               raise(m, typeerror, "Not a function object")

----------------------------------------------------------------------------
(* processor/mod.rs: run_code, one operator per instruction.  Each takes   *)
(* the machine as the loop finds it and returns the machine after the      *)
(* instruction.                                                            *)

\* The head of the loop: frame.program_counter += 1
Fetch(m) == SetTop(m, [Top(m) EXCEPT !.program_counter = @ + 1])

\* frame.var_stack without its top
PopFrame(m) == SetTop(m, [Top(m) EXCEPT !.var_stack = Front(@)])

LoadConst(m0, i) ==
    LET m == Fetch(m0)
        c == VecGet(Top(m).code.consts, i)
    IN  IF IsSome(c) THEN Push(m, Unwrap(c))
        ELSE raise_processor_error(m, "InvalidConstIndex")

\* LoadName that pushes None for a name no scope binds.
LoadName_pushes_none(m0, i) ==
    LET m == Fetch(m0)
        name == VecGet(Top(m).code.names, i)
    IN  IF ~IsSome(name) THEN raise_processor_error(m, "InvalidNameIndex")
        ELSE LET r == load_name(m, Top(m), Unwrap(name))
             IN  IF IsSome(r.res) THEN Push(r.m, Unwrap(r.res))
                 ELSE Push(r.m, none)

\* Instruction::LoadName(i) | Instruction::LoadGlobal(i)
LoadName(m0, i) ==
    LET m == Fetch(m0)
        name == VecGet(Top(m).code.names, i)
    IN  IF ~IsSome(name) THEN raise_processor_error(m, "InvalidNameIndex")
        ELSE LET r == load_name(m, Top(m), Unwrap(name))
             IN  IF IsSome(r.res) THEN Push(r.m, Unwrap(r.res))
                 ELSE raise(r.m, nameerror, <<"Unknown variable", Unwrap(name)>>)

LoadFast(m0, i) ==
    LET m == Fetch(m0)
        name == VecGet(Top(m).code.varnames, i)
    IN  IF ~IsSome(name) THEN raise_processor_error(m, "InvalidVarnameIndex")
        ELSE LET obj_ref == Get(Locals(m, Top(m)), Unwrap(name))
             IN  IF IsSome(obj_ref) THEN Push(m, Unwrap(obj_ref))
                 ELSE raise_processor_error(m, "InvalidName")

PopTop(m0) ==
    LET m == Fetch(m0)
    IN  IF Top(m).var_stack = <<>> THEN raise_processor_error(m, "StackTooSmall")
        ELSE PopFrame(m)

DupTop(m0) ==
    LET m == Fetch(m0)
    IN  IF Top(m).var_stack = <<>> THEN raise_processor_error(m, "StackTooSmall")
        ELSE Push(m, Last(Top(m).var_stack))

SetupLoop(m0, i) ==
    LET m == Fetch(m0)
        pc == Top(m).program_counter
    IN  SetTop(m, [Top(m) EXCEPT !.block_stack = Append(@, Loop(pc, pc + i))])

SetupExcept(m0, i) ==
    LET m == Fetch(m0)
        pc == Top(m).program_counter
    IN  SetTop(m, [Top(m) EXCEPT
            !.block_stack = Append(@, TryExcept(pc, pc + (i \div WORD_SIZE)))])

\* GetIter whose iterator starts on the second element.
GetIter_from_one(m0) ==
    LET m == Fetch(m0)
    IN  IF Top(m).var_stack = <<>> THEN raise_processor_error(m, "StackTooSmall")
        ELSE LET obj_ref == Last(Top(m).var_stack)
                 m1 == allocate(PopFrame(m), None, iterator_type,
                                CRandomAccessIterator(obj_ref, 1,
                                                      m.store[obj_ref].version))
             IN  Push(m1, NextRef(m))

\* ObjectRef::iter, pushed by GetIter
GetIter(m0) ==
    LET m == Fetch(m0)
    IN  IF Top(m).var_stack = <<>> THEN raise_processor_error(m, "StackTooSmall")
        ELSE LET obj_ref == Last(Top(m).var_stack)
                 m1 == allocate(PopFrame(m), None, iterator_type,
                                CRandomAccessIterator(obj_ref, 0,
                                                      m.store[obj_ref].version))
             IN  Push(m1, NextRef(m))

\* ForIter that pushes no ExceptPopGoto marker.
ForIter_without_marker(m0, i) ==
    LET m == Fetch(m0)
    IN  IF Top(m).var_stack = <<>> THEN raise_processor_error(m, "StackTooSmall")
        ELSE LET iterator == Last(Top(m).var_stack)
                 iter_func == NextRef(m)
                 m2 == allocate(m, None, function_type, CPrimitiveFunction("iter"))
             IN  call_function(m2, iter_func, <<iterator>>, <<>>)

ForIter(m0, i) ==
    LET m == Fetch(m0)
        pc == Top(m).program_counter
        m1 == SetTop(m, [Top(m) EXCEPT !.block_stack =
                  Append(@, ExceptPopGoto(stopiteration, 1, pc + (i \div WORD_SIZE)))])
    IN  IF Top(m1).var_stack = <<>> THEN raise_processor_error(m1, "StackTooSmall")
        ELSE LET iterator == Last(Top(m1).var_stack)
                 iter_func == NextRef(m1)
                 m2 == allocate(m1, None, function_type, CPrimitiveFunction("iter"))
             IN  call_function(m2, iter_func, <<iterator>>, <<>>)

\* Instruction::RaiseVarargs(1)
RaiseVarargs1(m0) ==
    LET m == Fetch(m0)
    IN  IF Top(m).var_stack = <<>> THEN raise_processor_error(m, "StackTooSmall")
        ELSE unwind(PopFrame(m), none, Last(Top(m).var_stack), none)

\* CallFunction that leaves the callee on the caller's stack.
CallFunction_keeps_callee(m0, nb_args, nb_kwargs) ==
    LET m == Fetch(m0)
        kwargs == pop_n_pairs(Top(m).var_stack, nb_kwargs)
        args == pop_many(kwargs.stack, nb_args)
    IN  IF ~kwargs.ok \/ ~args.ok \/ args.stack = <<>>
        THEN raise_processor_error(m, "StackTooSmall")
        ELSE call_function(SetTop(m, [Top(m) EXCEPT !.var_stack = args.stack]),
                           Last(args.stack), args.items, kwargs.items)

CallFunction(m0, nb_args, nb_kwargs) ==
    LET m == Fetch(m0)
        kwargs == pop_n_pairs(Top(m).var_stack, nb_kwargs)
        args == pop_many(kwargs.stack, nb_args)
    IN  IF ~kwargs.ok \/ ~args.ok \/ args.stack = <<>>
        THEN raise_processor_error(m, "StackTooSmall")
        ELSE call_function(SetTop(m, [Top(m) EXCEPT !.var_stack = Front(args.stack)]),
                           Last(args.stack), args.items, kwargs.items)

ReturnValue(m0) ==
    LET m == Fetch(m0)
        frame == Top(m)
        popped == [m EXCEPT !.call_stack = Front(@)]
    IN  IF frame.var_stack = <<>> THEN raise_processor_error(popped, "StackTooSmall")
        ELSE IF Len(m.call_stack) = 1
             THEN [popped EXCEPT !.result = Some(Last(frame.var_stack))]
             ELSE return_value(popped, Last(frame.var_stack))

----------------------------------------------------------------------------
(* The program under execution.  call_main_code has run the builtins       *)
(* module, which bound three names, and is about to run the main module.   *)

\* Objects allocated after the bootstrap ones: the constants of the two
\* code objects, the code objects and what the builtins module defined.
empty_tuple == NbPrimitiveObjects
one_tuple == NbPrimitiveObjects + 1
f_code == NbPrimitiveObjects + 2
f == NbPrimitiveObjects + 3
p == NbPrimitiveObjects + 4
g == NbPrimitiveObjects + 5
main_code == NbPrimitiveObjects + 6
main_module_ref == NbPrimitiveObjects + 7
main_module == NbPrimitiveObjects + 8

\* The code of the bytecode function f.
FCode ==
    [argcount |-> 0, kwonlyargcount |-> 0, flags |-> 0,
     consts |-> <<none>>, names |-> <<"v", "f">>, varnames |-> <<"a">>,
     name |-> "f", ninstructions |-> 2]

\* The code of the main module.
MainCode ==
    [argcount |-> 0, kwonlyargcount |-> 0, flags |-> 0,
     consts |-> <<none, empty_tuple, one_tuple>>,
     names |-> <<"f", "p", "g", "u">>, varnames |-> <<>>,
     name |-> "<module>", ninstructions |-> 5]

ProgramObjects ==
       (empty_tuple :> new_instance(empty_tuple, None, tuple_type, CTuple(<<>>)))
    @@ (one_tuple :> new_instance(one_tuple, None, tuple_type, CTuple(<<none>>)))
    @@ (f_code :> new_instance(f_code, None, code_type, CCode(FCode)))
    @@ (f :> new_instance(f, Some("f"), function_type,
                          CFunction("builtins", f_code, EmptyDict)))
    @@ (p :> new_instance(p, Some("nope"), function_type,
                          CPrimitiveFunction("nope")))
    @@ (g :> new_instance(g, Some("g"), function_type,
                          CFunction("builtins", empty_tuple, EmptyDict)))
    @@ (main_code :> new_instance(main_code, None, code_type, CCode(MainCode)))
    @@ (main_module_ref :> new_instance(main_module_ref, Some("__main__"), module,
                                        CModule(main_code)))
    @@ (main_module :> new_instance(main_module, Some("__main__"), module,
                                    CModule(main_code)))

\* Number of objects in the store when the main module starts.
NbInitialObjects == NbPrimitiveObjects + 9

\* What the builtins module bound: a bytecode function, a handle on a
\* primitive that is not in the registry, a function without a code object.
Builtins == ("f" :> f) @@ ("p" :> p) @@ ("g" :> g)

(* call_main_code, up to the call of run_code on the main module: the      *)
(* module's globals are registered and its frame is pushed on a fresh call *)
(* stack.                                                                  *)
Init ==
    /\ store = PrimitiveObjects @@ ProgramObjects
    /\ CURRENT_REF_ID = NbInitialObjects
    /\ CURRENT_VERSION = NbInitialObjects
    /\ modules = ("builtins" :> Builtins) @@ ("__main__" :> EmptyDict)
    /\ call_stack = <<NewFrame(main_module, MainCode, SharedLocals("__main__"))>>
    /\ status = "running"
    /\ error = ""
    /\ result = None
    /\ stdout = <<>>
    /\ instruction = None
    /\ unwind_args = None
    /\ steps = 0
    /\ AuxInit

----------------------------------------------------------------------------
(* The actions: run_code executes one instruction.                         *)

\* run_code is in its loop and the exploration goes on.
Running == status = "running" /\ steps < MaxSteps

\* frame.instructions.get(frame.program_counter) is Some
ValidPC == Last(call_stack).program_counter < Last(call_stack).code.ninstructions

\* The operands drawn for the instructions that take an offset.
SetupOperands == {3, 9}
ForIterOperands == {2}
\* The operands drawn for CallFunction(nb_args, nb_kwargs).
NbArgs == {0, 1}
NbKwargs == {0}

\* One iteration of the loop of run_code: ins was fetched and executed,
\* which made the machine m.
Commit(ins, m) ==
    /\ Len(m.call_stack) <= MaxFrames
    /\ store' = m.store
    /\ CURRENT_REF_ID' = m.ref_id
    /\ CURRENT_VERSION' = m.version
    /\ call_stack' = m.call_stack
    /\ modules' = m.modules
    /\ stdout' = m.stdout
    /\ status' = IF m.panic # "" THEN "panic"
                 ELSE IF IsSome(m.result) THEN "Return" ELSE "running"
    /\ error' = m.panic
    /\ result' = m.result
    /\ instruction' = Some(ins)
    /\ unwind_args' = m.unwind_args
    /\ steps' = steps + 1
    /\ UNCHANGED aux

\* frame.instructions.get(frame.program_counter) is None
ExecInvalidProgramCounter ==
    /\ Running /\ ~ValidPC
    /\ store' = store /\ CURRENT_REF_ID' = CURRENT_REF_ID
    /\ CURRENT_VERSION' = CURRENT_VERSION /\ call_stack' = call_stack
    /\ modules' = modules /\ stdout' = stdout
    /\ status' = "panic" /\ error' = "InvalidProgramCounter"
    /\ result' = None /\ instruction' = None /\ unwind_args' = None
    /\ steps' = steps + 1
    /\ UNCHANGED aux

ExecLoadConst ==
    /\ Running /\ ValidPC
    /\ \E i \in 0..Len(Last(call_stack).code.consts) :
          Commit(<<"LoadConst", i>>, LoadConst(Machine, i))

ExecLoadName ==
    /\ Running /\ ValidPC
    /\ \E i \in 0..Len(Last(call_stack).code.names) :
          Commit(<<"LoadName", i>>, LoadName(Machine, i))

ExecLoadFast ==
    /\ Running /\ ValidPC
    /\ \E i \in 0..Len(Last(call_stack).code.varnames) :
          Commit(<<"LoadFast", i>>, LoadFast(Machine, i))

ExecPopTop == Running /\ ValidPC /\ Commit(<<"PopTop">>, PopTop(Machine))

ExecSetupLoop ==
    /\ Running /\ ValidPC
    /\ \E i \in SetupOperands : Commit(<<"SetupLoop", i>>, SetupLoop(Machine, i))

ExecSetupExcept ==
    /\ Running /\ ValidPC
    /\ \E i \in SetupOperands : Commit(<<"SetupExcept", i>>, SetupExcept(Machine, i))

ExecGetIter == Running /\ ValidPC /\ Commit(<<"GetIter">>, GetIter(Machine))

ExecForIter ==
    /\ Running /\ ValidPC
    /\ \E i \in ForIterOperands : Commit(<<"ForIter", i>>, ForIter(Machine, i))

ExecRaiseVarargs1 ==
    Running /\ ValidPC /\ Commit(<<"RaiseVarargs", 1>>, RaiseVarargs1(Machine))

ExecCallFunction ==
    /\ Running /\ ValidPC
    /\ \E n \in NbArgs, k \in NbKwargs :
          Commit(<<"CallFunction", n, k>>, CallFunction(Machine, n, k))

ExecReturnValue ==
    Running /\ ValidPC /\ Commit(<<"ReturnValue">>, ReturnValue(Machine))

Next ==
    \/ ExecInvalidProgramCounter
    \/ ExecLoadConst
    \/ ExecLoadName
    \/ ExecLoadFast
    \/ ExecPopTop
    \/ ExecSetupLoop
    \/ ExecSetupExcept
    \/ ExecGetIter
    \/ ExecForIter
    \/ ExecRaiseVarargs1
    \/ ExecCallFunction
    \/ ExecReturnValue

Spec == Init /\ [][Next]_vars

----------------------------------------------------------------------------
(* Properties of exception unwinding, of ReturnValue and of name lookup,   *)
(* checked under Spec.                                                     *)

\* The call stack the last instruction handed to unwind, the exception it
\* raised, and the positions <<k, j>> (frame k, marker j) of its markers.
UnwoundStack == Unwrap(unwind_args).call_stack
UnwoundException == Unwrap(unwind_args).exception
Markers(cs) ==
    {mk \in (1..Len(cs)) \X (1..(MaxSteps + 1)) : mk[2] <= Len(cs[mk[1]].block_stack)}
MarkerAt(cs, mk) == cs[mk[1]].block_stack[mk[2]]
TryMarkers(cs) == {mk \in Markers(cs) : MarkerAt(cs, mk).type = "TryExcept"}
LoopMarkers(cs) == {mk \in Markers(cs) : MarkerAt(cs, mk).type = "Loop"}
\* The markers that stop the unwinding of exc: the try blocks and the
\* ExceptPopGoto markers whose pattern exc is an instance of.
Handlers(objs, cs, exc) ==
    {mk \in Markers(cs) :
        \/ MarkerAt(cs, mk).type = "TryExcept"
        \/ /\ MarkerAt(cs, mk).type = "ExceptPopGoto"
           /\ native_isinstance(objs, exc, MarkerAt(cs, mk).pattern)}
\* mk is above q: in a frame called later, or pushed later in the same frame.
Above(mk, q) == mk[1] > q[1] \/ (mk[1] = q[1] /\ mk[2] > q[2])
Innermost(S) == CHOOSE mk \in S : \A q \in S : q = mk \/ Above(mk, q)
\* The six entries a try block's handler finds on its stack.
HandlerEntries(ua) ==
    <<ua.traceback, ua.value, ua.exception, ua.traceback, ua.value, ua.exception>>

\* Execution resumed at marker mk of the call stack cs: the frames above
\* the marker's frame are gone, the frames below are as they were, the marker's frame lost
\* the markers above it and nothing else but its stack and its pc changed.
ResumedAt(cs, mk) ==
    /\ status = "running"
    /\ Len(call_stack) = mk[1]
    /\ SubSeq(call_stack, 1, mk[1] - 1) = SubSeq(cs, 1, mk[1] - 1)
    /\ Last(call_stack).block_stack = SubSeq(cs[mk[1]].block_stack, 1, mk[2])
    /\ Last(call_stack).program_counter = MarkerAt(cs, mk).end
    /\ Last(call_stack).locals = cs[mk[1]].locals
    /\ Last(call_stack).object = cs[mk[1]].object
    /\ Last(call_stack).code = cs[mk[1]].code

\* C1 as stated: whenever an exception unwinds and some frame holds a
\* TryExcept marker, execution resumes at the most recently pushed TryExcept
\* marker of the innermost such frame, whatever other markers lie above it.
C1_ResumesAtInnermostTry ==
    (IsSome(unwind_args) /\ TryMarkers(UnwoundStack) # {})
        => ResumedAt(UnwoundStack, Innermost(TryMarkers(UnwoundStack)))

\* C1 amended: when an exception unwinds and no ExceptPopGoto marker
\* matching it lies above the innermost TryExcept marker, execution resumes
\* in the innermost frame holding a TryExcept marker, at its most recently
\* pushed one; the frames above are removed and the Loop markers (and the
\* ExceptPopGoto markers that do not match) met on the way are discarded
\* with no other effect.
C1_ResumesAtInnermostTryUnlessAbsorbed ==
    (/\ IsSome(unwind_args)
     /\ TryMarkers(UnwoundStack) # {}
     /\ Innermost(Handlers(store, UnwoundStack, UnwoundException))
            \in TryMarkers(UnwoundStack))
        => ResumedAt(UnwoundStack, Innermost(TryMarkers(UnwoundStack)))

\* A handler was entered after a Loop marker above it was discarded.
C1_Witness ==
    /\ IsSome(unwind_args)
    /\ status = "running"
    /\ TryMarkers(UnwoundStack) # {}
    /\ Innermost(Handlers(store, UnwoundStack, UnwoundException))
           \in TryMarkers(UnwoundStack)
    /\ \E l \in LoopMarkers(UnwoundStack) :
           Above(l, Innermost(TryMarkers(UnwoundStack)))

\* C2: when the handler the unwinding finds is a TryExcept(begin, end), the
\* frame's pc is end, exactly six entries were pushed on its stack
\* (traceback, value, exception, twice, the exception on top) and the
\* TryExcept marker is still on top of the block stack.
C2_HandlerEntry ==
    (/\ IsSome(unwind_args)
     /\ Handlers(store, UnwoundStack, UnwoundException) # {}
     /\ Innermost(Handlers(store, UnwoundStack, UnwoundException))
            \in TryMarkers(UnwoundStack))
        => LET h == Innermost(Handlers(store, UnwoundStack, UnwoundException))
               marker == MarkerAt(UnwoundStack, h)
           IN  /\ call_stack # <<>>
               /\ Last(call_stack).program_counter = marker.end
               /\ Last(call_stack).var_stack =
                      UnwoundStack[h[1]].var_stack \o HandlerEntries(Unwrap(unwind_args))
               /\ Last(Last(call_stack).var_stack) = UnwoundException
               /\ Last(call_stack).block_stack # <<>>
               /\ Last(Last(call_stack).block_stack) = marker

\* A try block's handler was entered on a stack that already held an entry.
C2_Witness ==
    /\ IsSome(unwind_args)
    /\ status = "running"
    /\ Handlers(store, UnwoundStack, UnwoundException) # {}
    /\ Innermost(Handlers(store, UnwoundStack, UnwoundException))
           \in TryMarkers(UnwoundStack)
    /\ Len(Last(call_stack).var_stack) = 7

\* C3: when an exception unwinds and no frame holds a handler for it, the
\* run ends fatally: every frame has been popped, run_code did not return
\* PyResult::Return, and no instruction is executed afterwards.
C3_UncaughtIsFatal ==
    /\ []((IsSome(unwind_args)
            /\ Handlers(store, UnwoundStack, UnwoundException) = {})
          => (/\ status = "panic"
              /\ error = "UncaughtException"
              /\ call_stack = <<>>
              /\ result = None))
    /\ [][~(status = "panic" /\ error = "UncaughtException")]_vars

\* An exception raised in a called frame found no handler in either frame.
C3_Witness ==
    /\ IsSome(unwind_args)
    /\ Len(UnwoundStack) = 2
    /\ Handlers(store, UnwoundStack, UnwoundException) = {}
    /\ status = "panic"

\* C4: ReturnValue on a non-empty stack pops the current frame and takes the
\* top of its stack as the result.  If a caller remains, the call stack is
\* one frame shorter and the caller's stack gained the result, nothing else
\* of the caller changing; if the frame was the outermost, the run ends with
\* PyResult::Return(result) and an empty call stack.
C4_ReturnValue ==
    [][(/\ instruction' = Some(<<"ReturnValue">>)
        /\ Last(call_stack).var_stack # <<>>)
       => LET n == Len(call_stack)
              res == Last(Last(call_stack).var_stack)
          IN  IF n > 1
              THEN /\ status' = "running"
                   /\ result' = None
                   /\ call_stack' = [Front(call_stack) EXCEPT
                                        ![n - 1].var_stack = Append(@, res)]
              ELSE /\ status' = "Return"
                   /\ result' = Some(res)
                   /\ call_stack' = <<>>]_vars

\* A called function returned to its caller.
C4_Witness ==
    /\ instruction = Some(<<"ReturnValue">>)
    /\ status = "running"
    /\ Len(call_stack) = 1
    /\ Last(call_stack).var_stack # <<>>

\* The internal-error conditions of an instruction about to be executed.
InternalErrorCondition(ins) ==
    LET frame == Last(call_stack)
        depth == Len(frame.var_stack)
    IN  CASE ins[1] = "LoadConst" -> ins[2] >= Len(frame.code.consts)
          [] ins[1] = "LoadName" -> ins[2] >= Len(frame.code.names)
          [] ins[1] = "LoadFast" -> ins[2] >= Len(frame.code.varnames)
          [] ins[1] \in {"PopTop", "GetIter", "ForIter", "RaiseVarargs",
                         "ReturnValue"} -> depth = 0
          [] ins[1] = "CallFunction" ->
                IF depth < ins[2] + 2 * ins[3] + 1 THEN TRUE
                ELSE LET callee == store[frame.var_stack[depth - ins[2] - 2 * ins[3]]].content
                     IN  CASE callee.type = "PrimitiveFunction" ->
                                 callee.name \notin primitive_functions
                           [] callee.type = "Function" ->
                                 store[callee.code].content.type # "Code"
                           [] OTHER -> FALSE
          [] OTHER -> FALSE

\* C5 as stated: an instruction that meets an internal error (invalid pc,
\* stack underflow, unknown constant/name/local index, unregistered
\* primitive name, function whose code reference is not a code object)
\* aborts the run; it is never delivered to a TryExcept handler.
C5_InternalErrorsAbort ==
    [][(/\ status = "running"
        /\ \/ ~ValidPC
           \/ IsSome(instruction') /\ InternalErrorCondition(Unwrap(instruction')))
       => status' = "panic"]_vars

\* The name the instruction LoadName(i) looks up is bound in no scope and
\* is not one of the two synthetic names.
Unbound(i) ==
    LET frame == Last(call_stack)
        name == frame.code.names[i + 1]
    IN  /\ name \notin {"__primitives__", "__name__"}
        /\ name \notin DOMAIN Locals(Machine, frame)
        /\ name \notin DOMAIN modules["builtins"]
        /\ name \notin DOMAIN modules[module_of(store, frame.object)]

\* C8: LoadName/LoadGlobal of a name bound in no scope raises a NameError
\* as a program-level exception: nothing is pushed for the instruction, and
\* if a frame of the call stack is inside a try block, control reaches the
\* innermost such handler instead of the run aborting.
C8_UnboundNameRaisesNameError ==
    [][\A i \in 0..MaxSteps :
        (/\ instruction' = Some(<<"LoadName", i>>)
         /\ i < Len(Last(call_stack).code.names)
         /\ Unbound(i))
        => /\ IsSome(unwind_args')
           /\ LET ua == Unwrap(unwind_args')
                  n == Len(call_stack)
              IN  /\ ua.exception \notin DOMAIN store
                  /\ store'[ua.exception].class = nameerror
                  /\ ua.call_stack =
                        [call_stack EXCEPT ![n].program_counter = @ + 1]
                  /\ IF TryMarkers(call_stack) # {}
                     THEN LET h == Innermost(TryMarkers(call_stack))
                          IN  /\ status' = "running"
                              /\ Len(call_stack') = h[1]
                              /\ Last(call_stack').program_counter =
                                     MarkerAt(call_stack, h).end
                              /\ Last(call_stack').var_stack =
                                     call_stack[h[1]].var_stack \o HandlerEntries(ua)
                     ELSE /\ status' = "panic"
                          /\ error' = "UncaughtException"]_vars

\* A NameError raised in a called function reached the caller's handler.
C8_Witness ==
    /\ IsSome(instruction) /\ Unwrap(instruction)[1] = "LoadName"
    /\ IsSome(unwind_args)
    /\ store[UnwoundException].class = nameerror
    /\ Len(UnwoundStack) = 2
    /\ Len(call_stack) = 1
    /\ status = "running"

----------------------------------------------------------------------------
(* Name lookup on its own: run_code is about to execute one LoadName in a  *)
(* module frame or in the frame of a function h of the module, with any    *)
(* of the names bound or not in the locals, the module's globals and the   *)
(* builtins.                                                               *)

lookup_code == NbPrimitiveObjects
lookup_module == NbPrimitiveObjects + 1
h_code == NbPrimitiveObjects + 2
h == NbPrimitiveObjects + 3
local_value == NbPrimitiveObjects + 4
global_value == NbPrimitiveObjects + 5
builtin_value == NbPrimitiveObjects + 6
\* Number of objects in the store of the lookup scenario.
NbLookupObjects == NbPrimitiveObjects + 7

\* The names the LoadName of the scenario may look up.
LookupNames == <<"x", "__name__", "__primitives__">>

\* The code of the module and the code of its function h.
LookupCode ==
    [argcount |-> 0, kwonlyargcount |-> 0, flags |-> 0,
     consts |-> <<>>, names |-> LookupNames, varnames |-> <<>>,
     name |-> "<module>", ninstructions |-> 1]
HCode ==
    [argcount |-> 0, kwonlyargcount |-> 0, flags |-> 0,
     consts |-> <<>>, names |-> LookupNames, varnames |-> <<>>,
     name |-> "h", ninstructions |-> 1]

LookupObjects ==
       (lookup_code :> new_instance(lookup_code, None, code_type, CCode(LookupCode)))
    @@ (lookup_module :> new_instance(lookup_module, Some("__main__"), module,
                                      CModule(lookup_code)))
    @@ (h_code :> new_instance(h_code, None, code_type, CCode(HCode)))
    @@ (h :> new_instance(h, Some("h"), function_type,
                          CFunction("__main__", h_code, EmptyDict)))
    @@ (local_value :> new_instance(local_value, None, int_type, CInt(1)))
    @@ (global_value :> new_instance(global_value, None, int_type, CInt(2)))
    @@ (builtin_value :> new_instance(builtin_value, None, int_type, CInt(3)))

\* The frame of the module after it called h.
LookupCallerFrame ==
    [NewFrame(lookup_module, LookupCode, SharedLocals("__main__"))
        EXCEPT !.program_counter = 1]

InitLoadName ==
    /\ store = PrimitiveObjects @@ LookupObjects
    /\ CURRENT_REF_ID = NbLookupObjects
    /\ CURRENT_VERSION = NbLookupObjects
    /\ \E in_function \in BOOLEAN,
          bound_local, bound_global, bound_builtin \in SUBSET {"x", "__name__", "__primitives__"} :
          /\ in_function \/ bound_local = bound_global
          /\ modules = ("builtins" :> [n \in bound_builtin |-> builtin_value])
                    @@ ("__main__" :> [n \in bound_global |-> global_value])
          /\ call_stack =
                IF in_function
                THEN <<LookupCallerFrame,
                       NewFrame(h, HCode, OwnLocals([n \in bound_local |-> local_value]))>>
                ELSE <<NewFrame(lookup_module, LookupCode, SharedLocals("__main__"))>>
    /\ status = "running"
    /\ error = ""
    /\ result = None
    /\ stdout = <<>>
    /\ instruction = None
    /\ unwind_args = None
    /\ steps = 0
    /\ AuxInit

NextLoadName == ExecLoadName

SpecLoadName == InitLoadName /\ [][NextLoadName]_vars

\* The name LoadName(i) looks up, the scopes of the executing frame and
\* the reference the instruction left on top of the stack.
LookedUp(i) == Last(call_stack).code.names[i + 1]
LocalScope == Locals(Machine, Last(call_stack))
GlobalScope == modules[module_of(store, Last(call_stack).object)]
BuiltinScope == modules["builtins"]
Loaded == Last(Last(call_stack).var_stack)

\* C6 as stated: for a LoadName executed in a function frame, of a name
\* that has no local binding and is bound both in the module's globals and
\* in the builtins, the reference loaded is the module global's.
C6_GlobalBeforeBuiltin ==
    [][\A i \in 0..(Len(LookupNames) - 1) :
        (/\ instruction' = Some(<<"LoadName", i>>)
         /\ ~IsSome(Last(call_stack).locals.module)
         /\ LookedUp(i) \notin {"__name__", "__primitives__"}
         /\ LookedUp(i) \notin DOMAIN LocalScope
         /\ LookedUp(i) \in DOMAIN GlobalScope
         /\ LookedUp(i) \in DOMAIN BuiltinScope)
        => /\ status' = "running"
           /\ Loaded' = GlobalScope[LookedUp(i)]]_vars

\* C7 as stated: a LoadName of a name that has a local binding, the names
\* __name__ and __primitives__ included, loads the local binding.
C7_LocalFirst ==
    [][\A i \in 0..(Len(LookupNames) - 1) :
        (/\ instruction' = Some(<<"LoadName", i>>)
         /\ LookedUp(i) \in DOMAIN LocalScope)
        => /\ status' = "running"
           /\ Loaded' = LocalScope[LookedUp(i)]]_vars

----------------------------------------------------------------------------
(* Calls on their own: run_code is about to execute one CallFunction in    *)
(* the main module, with a bytecode function, positional arguments and     *)
(* keyword pairs on the stack.                                             *)

\* The largest numbers of positional arguments and of keyword pairs.
MaxArgs == 2
MaxKwargs == 1

call_code == NbPrimitiveObjects + 9
call_func == NbPrimitiveObjects + 10
first_value == NbPrimitiveObjects + 11
second_value == NbPrimitiveObjects + 12
keyword_value == NbPrimitiveObjects + 13
default_value == NbPrimitiveObjects + 14
key_a == NbPrimitiveObjects + 15
key_k == NbPrimitiveObjects + 16
key_z == NbPrimitiveObjects + 17
\* Number of objects in the store of the call scenario.
NbCallObjects == NbPrimitiveObjects + 18

\* The code of the function called: f1(a, b), f2(a, *rest), f3(a, *, k),
\* f4(a, **kw), f5(*rest).
Signature(name, argcount, kwonlyargcount, flags, varnames) ==
    [argcount |-> argcount, kwonlyargcount |-> kwonlyargcount, flags |-> flags,
     consts |-> <<>>, names |-> <<>>, varnames |-> varnames,
     name |-> name, ninstructions |-> 1]
CallCodes ==
    { Signature("f1", 2, 0, 0, <<"a", "b">>),
      Signature("f2", 1, 0, 4, <<"a", "rest">>),
      Signature("f3", 1, 1, 0, <<"a", "k">>),
      Signature("f4", 1, 0, 8, <<"a", "kw">>),
      Signature("f5", 0, 0, 4, <<"rest">>) }

\* The defaults MakeFunction gave the function.
CallDefaults ==
    { EmptyDict, ("a" :> default_value), ("k" :> default_value) }

CallObjects(code, defaults) ==
       (call_code :> new_instance(call_code, None, code_type, CCode(code)))
    @@ (call_func :> new_instance(call_func, Some(code.name), function_type,
                                  CFunction("__main__", call_code, defaults)))
    @@ (first_value :> new_instance(first_value, None, int_type, CInt(1)))
    @@ (second_value :> new_instance(second_value, None, int_type, CInt(2)))
    @@ (keyword_value :> new_instance(keyword_value, None, int_type, CInt(3)))
    @@ (default_value :> new_instance(default_value, None, int_type, CInt(4)))
    @@ (key_a :> new_instance(key_a, None, str_type, CString("a")))
    @@ (key_k :> new_instance(key_k, None, str_type, CString("k")))
    @@ (key_z :> new_instance(key_z, None, str_type, CString("z")))

\* The sequences of at most n elements of S.
SeqUpTo(S, n) == UNION {[1..l -> S] : l \in 0..n}

\* What LoadConst left on the stack for the keys of the keyword pairs.
KeywordEntries(keys) ==
    [i \in 1..(2 * Len(keys)) |->
        IF i % 2 = 1 THEN keys[(i + 1) \div 2] ELSE keyword_value]

InitCall ==
    /\ \E code \in CallCodes, defaults \in CallDefaults,
          args \in SeqUpTo({first_value, second_value}, MaxArgs),
          keys \in SeqUpTo({key_a, key_k, key_z}, MaxKwargs) :
          /\ store = PrimitiveObjects @@ ProgramObjects @@ CallObjects(code, defaults)
          /\ call_stack =
                <<[NewFrame(main_module, MainCode, SharedLocals("__main__"))
                      EXCEPT !.var_stack = <<call_func>> \o args \o KeywordEntries(keys)]>>
    /\ CURRENT_REF_ID = NbCallObjects
    /\ CURRENT_VERSION = NbCallObjects
    /\ modules = ("builtins" :> Builtins) @@ ("__main__" :> EmptyDict)
    /\ status = "running"
    /\ error = ""
    /\ result = None
    /\ stdout = <<>>
    /\ instruction = None
    /\ unwind_args = None
    /\ steps = 0
    /\ AuxInit

\* CallFunction(nb_args, nb_kwargs) with any number of keyword pairs.
ExecCallFunctionKw ==
    /\ Running /\ ValidPC
    /\ \E n \in 0..MaxArgs, k \in 0..MaxKwargs :
          Commit(<<"CallFunction", n, k>>, CallFunction(Machine, n, k))

NextCall == ExecCallFunctionKw

SpecCall == InitCall /\ [][NextCall]_vars

\* What CallFunction(n, k) finds on the stack: the callee under n
\* positional arguments under k (key, value) pairs.
StackHolds(n, k) == Len(Last(call_stack).var_stack) >= n + 2 * k + 1
Positionals(n, k) ==
    LET stack == Last(call_stack).var_stack
    IN  SubSeq(stack, Len(stack) - 2 * k - n + 1, Len(stack) - 2 * k)
KeywordNames(k) ==
    LET stack == Last(call_stack).var_stack
    IN  {store[stack[Len(stack) - 2 * j + 1]].content.s : j \in 1..k}
Callee(n, k) ==
    LET stack == Last(call_stack).var_stack
    IN  stack[Len(stack) - 2 * k - n]
CalleeIsBytecode(n, k) ==
    /\ store[Callee(n, k)].content.type = "Function"
    /\ store[store[Callee(n, k)].content.code].content.type = "Code"
CalleeCode(n, k) == store[store[Callee(n, k)].content.code].content.code
CalleeDefaults(n, k) == store[Callee(n, k)].content.defaults

\* C9: a call of a bytecode function that starts the function's frame has
\* bound the i-th positional argument to varnames[i] for every i below the
\* declared argument count and, when the code accepts variadic positional
\* arguments, has bound the variadic parameter name to a tuple of the
\* positionals beyond the declared count, in order (empty when none).
C9_PositionalBinding ==
    [][\A n \in 0..(MaxArgs + 1), k \in 0..(MaxKwargs + 1) :
        (/\ instruction' = Some(<<"CallFunction", n, k>>)
         /\ StackHolds(n, k)
         /\ CalleeIsBytecode(n, k)
         /\ Len(call_stack') = Len(call_stack) + 1)
        => LET code == CalleeCode(n, k)
               args == Positionals(n, k)
               bound == Last(call_stack').locals.map
               rest == code.varnames[code.argcount + code.kwonlyargcount + 1]
           IN  /\ \A i \in 1..code.argcount :
                      i <= n => (/\ code.varnames[i] \in DOMAIN bound
                                 /\ bound[code.varnames[i]] = args[i])
               /\ co_varargs(code) =>
                      /\ rest \in DOMAIN bound
                      /\ bound[rest] \notin DOMAIN store
                      /\ store'[bound[rest]].class = tuple_type
                      /\ store'[bound[rest]].content =
                             CTuple(SubSeq(args, code.argcount + 1, n))]_vars

\* f2(a, *rest) was called with two positional arguments.
C9_Witness ==
    /\ instruction = Some(<<"CallFunction", 2, 0>>)
    /\ status = "running"
    /\ Len(call_stack) = 2
    /\ Last(call_stack).code.name = "f2"
    /\ "rest" \in DOMAIN Last(call_stack).locals.map
    /\ store[Last(call_stack).locals.map["rest"]].content = CTuple(<<second_value>>)

\* C10 as stated: a call of a bytecode function each of whose declared
\* parameters receives a value, positionally, by keyword or from a default,
\* and which passes no positional argument in excess, does not fail with
\* the argument-count error.
C10_MetParametersAreAccepted ==
    [][\A n \in 0..(MaxArgs + 1), k \in 0..(MaxKwargs + 1) :
        (/\ instruction' = Some(<<"CallFunction", n, k>>)
         /\ StackHolds(n, k)
         /\ CalleeIsBytecode(n, k)
         /\ \A j \in 1..k : store[Last(call_stack).var_stack[
                Len(Last(call_stack).var_stack) - 2 * j + 1]].content.type = "String"
         /\ LET code == CalleeCode(n, k)
            IN  /\ n <= code.argcount \/ co_varargs(code)
                /\ \A i \in 1..(code.argcount + code.kwonlyargcount) :
                      \/ i <= n /\ i <= code.argcount
                      \/ code.varnames[i] \in KeywordNames(k)
                      \/ code.varnames[i] \in DOMAIN CalleeDefaults(n, k))
        => error' # "ArgumentCount"]_vars

\* The declared positional parameters of code that defaults does not cover.
NonDefaultParameters(code, defaults) ==
    {i \in 1..code.argcount : code.varnames[i] \notin DOMAIN defaults}

\* C11: a call of a bytecode function with fewer positional arguments than
\* it declares positional parameters without a default fails with the
\* argument-count error, and no frame is pushed for the callee.
C11_TooFewPositionals ==
    [][\A n \in 0..(MaxArgs + 1), k \in 0..(MaxKwargs + 1) :
        (/\ instruction' = Some(<<"CallFunction", n, k>>)
         /\ StackHolds(n, k)
         /\ CalleeIsBytecode(n, k)
         /\ n < Cardinality(NonDefaultParameters(CalleeCode(n, k),
                                                 CalleeDefaults(n, k))))
        => /\ status' = "panic"
           /\ error' = "ArgumentCount"
           /\ Len(call_stack') = Len(call_stack)
           /\ Last(call_stack').object = Last(call_stack).object]_vars

\* f1(a, b) was called with one positional argument.
C11_Witness ==
    /\ instruction = Some(<<"CallFunction", 1, 0>>)
    /\ store[call_code].content.code.name = "f1"
    /\ status = "panic"
    /\ error = "ArgumentCount"
    /\ Len(call_stack) = 1

\* n positional arguments are as many as code takes.
PassesCount(code, n) ==
    IF co_varargs(code) THEN n >= code.argcount ELSE n = code.argcount

\* The (key, value) pairs CallFunction(n, k) finds on the stack, in order.
KeywordPairs(k) ==
    LET stack == Last(call_stack).var_stack
    IN  [j \in 1..k |-> <<stack[Len(stack) - 2 * (k - j) - 1],
                          stack[Len(stack) - 2 * (k - j)]>>]
\* The pairs of a sequence of pairs whose key names no parameter in declared.
RECURSIVE Undeclared(_, _)
Undeclared(pairs, declared) ==
    IF pairs = <<>> THEN <<>>
    ELSE IF store[Head(pairs)[1]].content.s \in declared
         THEN Undeclared(Tail(pairs), declared)
         ELSE <<Head(pairs)>> \o Undeclared(Tail(pairs), declared)

----------------------------------------------------------------------------
(* Iteration on its own: the main module holds a list or a tuple on its    *)
(* stack and executes GetIter, DupTop, ForIter and PopTop, while the       *)
(* embedding program may mutate the list between two instructions.         *)

\* The largest container and the number of instructions executed.
MaxLen == 2
MaxIterSteps == 8

iter_code == NbPrimitiveObjects
iter_module == NbPrimitiveObjects + 1
container == NbPrimitiveObjects + 2
\* Number of objects in the store of the iteration scenario.
NbIterObjects == NbPrimitiveObjects + 3

\* The code of the module: long enough for every run explored.
IterCode ==
    [argcount |-> 0, kwonlyargcount |-> 0, flags |-> 0,
     consts |-> <<>>, names |-> <<>>, varnames |-> <<>>,
     name |-> "<module>", ninstructions |-> 3 * MaxIterSteps]

IterObjects(content) ==
       (iter_code :> new_instance(iter_code, None, code_type, CCode(IterCode)))
    @@ (iter_module :> new_instance(iter_module, Some("__main__"), module,
                                     CModule(iter_code)))
    @@ (container :> new_instance(container, None,
                                  IF content.type = "List" THEN list_type
                                  ELSE tuple_type,
                                  content))

\* The elements a container may hold, distinct to tell them apart.
Elements == <<none, true_obj, false_obj>>
ContainerContents ==
    {CList(SubSeq(Elements, 1, n)) : n \in 0..MaxLen}
        \cup {CTuple(SubSeq(Elements, 1, n)) : n \in 0..MaxLen}

InitIter ==
    /\ \E content \in ContainerContents :
          store = PrimitiveObjects @@ IterObjects(content)
    /\ CURRENT_REF_ID = NbIterObjects
    /\ CURRENT_VERSION = NbIterObjects
    /\ modules = ("builtins" :> EmptyDict) @@ ("__main__" :> EmptyDict)
    /\ call_stack = <<[NewFrame(iter_module, IterCode, SharedLocals("__main__"))
                          EXCEPT !.var_stack = <<container>>]>>
    /\ status = "running"
    /\ error = ""
    /\ result = None
    /\ stdout = <<>>
    /\ instruction = None
    /\ unwind_args = None
    /\ steps = 0
    /\ AuxInit

\* run_code is in its loop and the exploration goes on.
IterRunning == status = "running" /\ steps < MaxIterSteps /\ ValidPC

StepGetIter == IterRunning /\ Commit(<<"GetIter">>, GetIter(Machine))
StepDupTop == IterRunning /\ Commit(<<"DupTop">>, DupTop(Machine))
StepPopTop == IterRunning /\ Commit(<<"PopTop">>, PopTop(Machine))
StepForIter ==
    /\ IterRunning
    /\ \E i \in ForIterOperands : Commit(<<"ForIter", i>>, ForIter(Machine, i))

\* What a mutation makes of the elements v of a list: one more, or the
\* last one removed.
Mutations(v) ==
    (IF Len(v) < MaxLen THEN {Append(v, none)} ELSE {})
        \cup (IF v # <<>> THEN {Front(v)} ELSE {})

(* The embedding program mutates a list between two instructions: it      *)
(* writes the content through deref_mut and gives the object a new        *)
(* version.                                                               *)
MutateContainer ==
    /\ IterRunning
    /\ \E r \in DOMAIN store :
          /\ store[r].content.type = "List"
          /\ \E v \in Mutations(store[r].content.v) :
                store' = [store EXCEPT ![r].content = CList(v),
                                       ![r].version = CURRENT_VERSION]
    /\ CURRENT_VERSION' = CURRENT_VERSION + 1
    /\ instruction' = None
    /\ unwind_args' = None
    /\ steps' = steps + 1
    /\ UNCHANGED <<CURRENT_REF_ID, call_stack, modules, status, error, result,
                   stdout, aux>>

NextIter ==
    \/ StepGetIter
    \/ StepDupTop
    \/ StepPopTop
    \/ StepForIter
    \/ MutateContainer

SpecIter == InitIter /\ [][NextIter]_vars

\* The top of the executing frame's stack, when it is an iterator over a
\* list or a tuple: its content and the container it walks.
TopIsIterator ==
    /\ Last(call_stack).var_stack # <<>>
    /\ store[Last(Last(call_stack).var_stack)].content.type = "RandomAccessIterator"
    /\ store[store[Last(Last(call_stack).var_stack)].content.container].content.type
           \in {"List", "Tuple"}
TopIterator == Last(Last(call_stack).var_stack)
Walked == store[store[TopIterator].content.container]
\* The container changed since the iterator was made.
Stale == Walked.version # store[TopIterator].content.version
Exhausted == store[TopIterator].content.index >= Len(Walked.content.v)

\* C13: a ForIter step on an iterator whose container's version differs
\* from the version the iterator recorded fails with the container-changed
\* error: no element is pushed and the iterator's index is not advanced.
C13_StaleIteratorFails ==
    [][\A i \in ForIterOperands :
        (/\ instruction' = Some(<<"ForIter", i>>)
         /\ TopIsIterator
         /\ Stale)
        => /\ status' = "panic"
           /\ error' = "ContainerChanged"
           /\ result' = None
           /\ Len(call_stack') = Len(call_stack)
           /\ Last(call_stack').var_stack = Last(call_stack).var_stack
           /\ store'[TopIterator] = store[TopIterator]]_vars

\* An iteration step found its list mutated.
C13_Witness ==
    /\ status = "panic"
    /\ error = "ContainerChanged"
    /\ IsSome(instruction) /\ Unwrap(instruction)[1] = "ForIter"

\* C14: GetIter on a list or tuple makes a fresh iterator at index 0 with
\* the container's current version; a ForIter step on an iterator whose
\* container is unmodified, of length n, at index i < n pushes element i and
\* advances the index by exactly one, and at index i >= n raises
\* StopIteration, pushing no element and leaving the iterator as it is.
C14_IterationInOrder ==
    [][/\ (/\ instruction' = Some(<<"GetIter">>)
           /\ Last(call_stack).var_stack # <<>>
           /\ store[Last(Last(call_stack).var_stack)].content.type
                  \in {"List", "Tuple"})
          => LET c == Last(Last(call_stack).var_stack)
                 it == Last(Last(call_stack').var_stack)
             IN  /\ status' = "running"
                 /\ it \notin DOMAIN store
                 /\ store'[it].class = iterator_type
                 /\ store'[it].content =
                        CRandomAccessIterator(c, 0, store[c].version)
                 /\ Last(call_stack').var_stack =
                        Append(Front(Last(call_stack).var_stack), it)
       /\ \A i \in ForIterOperands :
            (/\ instruction' = Some(<<"ForIter", i>>)
             /\ TopIsIterator
             /\ ~Stale)
            => LET index == store[TopIterator].content.index
               IN  IF ~Exhausted
                   THEN /\ status' = "running"
                        /\ unwind_args' = None
                        /\ Last(call_stack').var_stack =
                               Append(Last(call_stack).var_stack,
                                      Walked.content.v[index + 1])
                        /\ store'[TopIterator].content =
                               [store[TopIterator].content EXCEPT !.index = index + 1]
                   ELSE /\ IsSome(unwind_args')
                        /\ store'[Unwrap(unwind_args').exception].class = stopiteration
                        /\ store'[TopIterator] = store[TopIterator]
                        /\ Last(call_stack').var_stack =
                               Front(Last(call_stack).var_stack)]_vars

\* An iterator that returned the two elements of its container has just
\* raised StopIteration.
C14_Witness ==
    /\ IsSome(unwind_args)
    /\ store[Unwrap(unwind_args).exception].class = stopiteration
    /\ \E it \in DOMAIN store :
          /\ store[it].content.type = "RandomAccessIterator"
          /\ store[it].content.index = 2
          /\ store[it].content.container = container
          /\ store[container].version = store[it].content.version
          /\ Len(store[container].content.v) = 2
          /\ it \in {Unwrap(unwind_args).call_stack[1].var_stack[j] :
                        j \in 1..Len(Unwrap(unwind_args).call_stack[1].var_stack)}

\* C16 as stated: the content of an object changes in a step exactly when
\* its version does.
C16_VersionTracksContent ==
    [][\A r \in DOMAIN store :
          (store'[r].content # store[r].content)
              <=> (store'[r].version # store[r].version)]_vars

\* C15: a ForIter(i) step on an exhausted iterator resumes in the same
\* frame at the jump target, the pc after the instruction plus i/WORD_SIZE,
\* with the iterator popped; the depth of the call stack, the block stack
\* and everything else in the frame are as before, so no try block's
\* handler received the StopIteration.
C15_ExhaustedForIterJumps ==
    [][\A i \in ForIterOperands :
        (/\ instruction' = Some(<<"ForIter", i>>)
         /\ TopIsIterator
         /\ ~Stale
         /\ Exhausted)
        => /\ status' = "running"
           /\ IsSome(unwind_args')
           /\ store'[Unwrap(unwind_args').exception].class = stopiteration
           /\ call_stack' =
                 [call_stack EXCEPT ![Len(call_stack)] =
                     [@ EXCEPT !.var_stack = Front(@),
                               !.program_counter = @ + 1 + (i \div WORD_SIZE)]]]_vars

\* A for loop inside a try block ended on its exhausted iterator.
C15_Witness ==
    /\ IsSome(instruction) /\ Unwrap(instruction)[1] = "ForIter"
    /\ IsSome(unwind_args)
    /\ store[UnwoundException].class = stopiteration
    /\ status = "running"
    /\ TryMarkers(call_stack) # {}

----------------------------------------------------------------------------
(* The object store on its own (objects/mod.rs): two ObjectStore instances *)
(* of one process, which share CURRENT_REF_ID, and a caller that keeps     *)
(* every reference it was handed.                                          *)

\* At most MaxStoreOps calls are made on the stores.
MaxStoreOps == 4

\* ObjectStore::new
ObjectStore_new == <<>>

\* HashMap::insert: the entry of the key is replaced if there is one.
HashMap_insert(all_objects, obj_ref, obj) == (obj_ref :> obj) @@ all_objects

\* ObjectStore::allocate, given the reference ObjectRef::new drew.
ObjectStore_allocate(all_objects, obj_ref, obj) ==
    HashMap_insert(all_objects, obj_ref, obj)

\* allocate_at without the lookup.
allocate_at_overwrites(all_objects, obj_ref, obj) ==
    [panic |-> "", all_objects |-> HashMap_insert(all_objects, obj_ref, obj)]

\* ObjectStore::allocate_at
allocate_at(all_objects, obj_ref, obj) ==
    IF obj_ref \notin DOMAIN all_objects
    THEN [panic |-> "", all_objects |-> HashMap_insert(all_objects, obj_ref, obj)]
    ELSE [panic |-> "Already allocated", all_objects |-> all_objects]

\* ObjectStore::deref
deref(all_objects, obj_ref) == all_objects[obj_ref]

\* The two stores of the process.
Stores == {1, 2}
all_objects(s) == IF s = 1 THEN store ELSE other_store

\* The objects the caller allocates: Object::new_instance draws the version.
StoreContents == {CNone, CTrue}
NewObject(content) == new_instance(CURRENT_VERSION, None, object, content)

\* The references the caller holds.
KnownRefs == reserved \cup DOMAIN store \cup DOMAIN other_store

InitStore ==
    /\ store = ObjectStore_new
    /\ other_store = ObjectStore_new
    /\ reserved = {}
    /\ CURRENT_REF_ID = 0
    /\ CURRENT_VERSION = 0
    /\ call_stack = <<>>
    /\ modules = <<>>
    /\ status = "running"
    /\ error = ""
    /\ result = None
    /\ stdout = <<>>
    /\ instruction = None
    /\ unwind_args = None
    /\ steps = 0
    /\ reader = <<>>
    /\ references = <<>>
    /\ decoder = <<>>
    /\ phase = ""

StoreRunning == status = "running" /\ steps < MaxStoreOps

\* What no call on a store touches.
StoreFrame ==
    UNCHANGED <<call_stack, modules, stdout, unwind_args, reader, references,
                decoder, phase>>

\* The all_objects of store s becomes objs.
SetStore(s, objs) ==
    /\ store' = IF s = 1 THEN objs ELSE store
    /\ other_store' = IF s = 2 THEN objs ELSE other_store

\* let r = stores[s].allocate(Object::new_instance(None, object, content))
CallAllocate ==
    /\ StoreRunning
    /\ \E s \in Stores, content \in StoreContents :
          /\ SetStore(s, ObjectStore_allocate(all_objects(s), CURRENT_REF_ID,
                                              NewObject(content)))
          /\ instruction' = Some(<<"allocate", s, CURRENT_REF_ID>>)
    /\ CURRENT_REF_ID' = CURRENT_REF_ID + 1
    /\ CURRENT_VERSION' = CURRENT_VERSION + 1
    /\ result' = Some(CURRENT_REF_ID)
    /\ steps' = steps + 1
    /\ UNCHANGED <<status, error, reserved>>
    /\ StoreFrame

\* let r = ObjectRef::new()
CallObjectRefNew ==
    /\ StoreRunning
    /\ reserved' = reserved \cup {CURRENT_REF_ID}
    /\ CURRENT_REF_ID' = CURRENT_REF_ID + 1
    /\ instruction' = Some(<<"ObjectRef::new", 0, CURRENT_REF_ID>>)
    /\ result' = Some(CURRENT_REF_ID)
    /\ steps' = steps + 1
    /\ UNCHANGED <<store, other_store, CURRENT_VERSION, status, error>>
    /\ StoreFrame

\* stores[s].allocate_at(r, Object::new_instance(None, object, content))
CallAllocateAt ==
    /\ StoreRunning
    /\ \E s \in Stores, r \in KnownRefs, content \in StoreContents :
          LET res == allocate_at(all_objects(s), r, NewObject(content)) IN
          /\ SetStore(s, res.all_objects)
          /\ status' = IF res.panic # "" THEN "panic" ELSE "running"
          /\ error' = res.panic
          /\ instruction' = Some(<<"allocate_at", s, r>>)
    /\ CURRENT_VERSION' = CURRENT_VERSION + 1
    /\ result' = None
    /\ steps' = steps + 1
    /\ UNCHANGED <<CURRENT_REF_ID, reserved>>
    /\ StoreFrame

NextStore ==
    \/ CallAllocate
    \/ CallObjectRefNew
    \/ CallAllocateAt

SpecStore == InitStore /\ [][NextStore]_vars

----------------------------------------------------------------------------
(* Claims about the object store, checked under SpecStore.                 *)

\* The call just made, its store and its reference.
Called(op) == IsSome(instruction) /\ Unwrap(instruction)[1] = op
CalledStore == Unwrap(instruction)[2]
CalledRef == Unwrap(instruction)[3]

\* C17: after any sequence of allocate, ObjectRef::new and allocate_at
\* calls on the two stores that share CURRENT_REF_ID, no reference
\* addresses two distinct objects: a reference bound in both stores is
\* bound to one and the same object.
C17_NoReferenceAddressesTwoObjects ==
    \A r \in DOMAIN store \cap DOMAIN other_store : store[r] = other_store[r]

\* C18: allocate_at on a reference already bound in the store fails and
\* leaves the store, the object at that reference included, as it was; on
\* a reference made by ObjectRef::new and not bound in the store yet it
\* binds the object, deref returns it afterwards, and the other bindings
\* of the store stay.
C18_AllocateAt ==
    [][\A s \in Stores, r \in KnownRefs :
        instruction' = Some(<<"allocate_at", s, r>>)
        => /\ r \in DOMAIN all_objects(s)
              => /\ status' = "panic"
                 /\ error' = "Already allocated"
                 /\ all_objects(s)' = all_objects(s)
                 /\ deref(all_objects(s)', r) = deref(all_objects(s), r)
           /\ (r \in reserved /\ r \notin DOMAIN all_objects(s))
              => /\ status' = "running"
                 /\ r \in DOMAIN all_objects(s)'
                 /\ \E content \in StoreContents :
                       deref(all_objects(s)', r) = NewObject(content)
                 /\ \A q \in DOMAIN all_objects(s) :
                       /\ q \in DOMAIN all_objects(s)'
                       /\ deref(all_objects(s)', q) = deref(all_objects(s), q)]_vars

\* A reference made by ObjectRef::new was bound by allocate_at, and a
\* second allocate_at on it in the same store failed.
C18_Witness ==
    /\ Called("allocate_at")
    /\ CalledRef \in reserved
    /\ status = "panic"
    /\ error = "Already allocated"
    /\ CalledRef \in DOMAIN all_objects(CalledStore)

----------------------------------------------------------------------------
(* The marshal decoder (marshal/decode.rs).  Its functions work on the     *)
(* reader, the store, the two counters and the table of references; err is *)
(* the Err(UnmarshalError) of a function that failed, value its Ok value,  *)
(* and calls counts the calls of read_object.                              *)

RECURSIVE read_object(_), read_objects(_, _, _)

Decoder ==
    [reader |-> reader, store |-> store, ref_id |-> CURRENT_REF_ID,
     version |-> CURRENT_VERSION, references |-> references,
     panic |-> "", err |-> None, value |-> None, calls |-> 0]

Err(d, e) == [d EXCEPT !.err = Some(e)]
Ok(d, v) == [d EXCEPT !.value = v]
\* try!: the function returns the Err (a panic unwinds through it).
Failed(d) == d.panic # "" \/ IsSome(d.err)

\* io::Read::read_exact of n bytes from a slice
read_exact(d, n) ==
    IF Len(d.reader) < n THEN Err(d, "Io")
    ELSE [d EXCEPT !.value = SubSeq(d.reader, 1, n),
                   !.reader = SubSeq(@, n + 1, Len(@))]

\* read_byte!
read_byte(d) ==
    LET b == read_exact(d, 1) IN
    IF Failed(b) THEN b ELSE Ok(b, b.value[1])

(* A u32, kept as its two 16-bit halves: the number lo + 65536 * hi.       *)
U32(lo, hi) == [lo |-> lo, hi |-> hi]
\* n as usize.  A value of 2^31 or more stands for one beyond the length
\* of any reader or table explored.
as_usize(n) == IF n.hi < 32768 THEN n.lo + 65536 * n.hi ELSE 2147483647

\* read_long taking the first byte as the most significant.
read_long_big_endian(d) ==
    LET b == read_exact(d, 4) IN
    IF Failed(b) THEN b
    ELSE Ok(b, U32(b.value[4] + 256 * b.value[3], b.value[2] + 256 * b.value[1]))

\* read_long: a little-endian u32,
\* buf[0] + 256*(buf[1] + 256*(buf[2] + 256*buf[3]))
read_long(d) ==
    LET b == read_exact(d, 4) IN
    IF Failed(b) THEN b
    ELSE Ok(b, U32(b.value[1] + 256 * b.value[2], b.value[3] + 256 * b.value[4]))

\* read_ascii_string: the String of the chars whose code points are the bytes
read_ascii_string(d, size) ==
    LET b == read_exact(d, size) IN
    IF Failed(b) THEN b ELSE Ok(b, [i \in 1..size |-> b.value[i]])

(* String::from_utf8: the chars of a well-formed UTF-8 byte string (the   *)
(* shortest encoding of scalar values, surrogates excluded), or None.      *)
Continuation(buf, i) == i <= Len(buf) /\ buf[i] \in 128..191
RECURSIVE from_utf8(_, _)
from_utf8(buf, chars) ==
    IF buf = <<>> THEN Some(chars)
    ELSE LET b == buf[1]
             rest(n) == SubSeq(buf, n + 1, Len(buf))
         IN
         CASE b < 128 -> from_utf8(rest(1), Append(chars, b))
           [] b \in 194..223 ->
                 IF Continuation(buf, 2)
                 THEN from_utf8(rest(2), Append(chars, (b % 32) * 64 + (buf[2] % 64)))
                 ELSE None
           [] b \in 224..239 ->
                 IF /\ Continuation(buf, 2) /\ Continuation(buf, 3)
                    /\ (b = 224 => buf[2] >= 160)
                    /\ (b = 237 => buf[2] <= 159)
                 THEN from_utf8(rest(3), Append(chars,
                         (b % 16) * 4096 + (buf[2] % 64) * 64 + (buf[3] % 64)))
                 ELSE None
           [] b \in 240..244 ->
                 IF /\ Continuation(buf, 2) /\ Continuation(buf, 3)
                    /\ Continuation(buf, 4)
                    /\ (b = 240 => buf[2] >= 144)
                    /\ (b = 244 => buf[2] <= 143)
                 THEN from_utf8(rest(4), Append(chars,
                         (b % 8) * 262144 + (buf[2] % 64) * 4096
                         + (buf[3] % 64) * 64 + (buf[4] % 64)))
                 ELSE None
           [] OTHER -> None

\* read_unicode_string taking each byte for a char, whatever the bytes.
read_unicode_string_unchecked(d, size) == read_ascii_string(d, size)

\* read_unicode_string
read_unicode_string(d, size) ==
    LET b == read_exact(d, size) IN
    IF Failed(b) THEN b
    ELSE LET s == from_utf8(b.value, <<>>) IN
         IF IsSome(s) THEN Ok(b, Unwrap(s)) ELSE Err(b, "Decoding")

\* The reference pushed whatever the flag.
push_always(d, flag, obj_ref) == [d EXCEPT !.references = Append(@, obj_ref)]

\* references.push(obj_ref.clone()) when the flag is set
push_if(d, flag, obj_ref) ==
    IF flag THEN [d EXCEPT !.references = Append(@, obj_ref)] ELSE d

\* primitive_objects.$factory(objects), with the version new_instance draws
factory_object(factory, version, objects) ==
    CASE factory = "new_tuple" ->
            new_instance(version, None, tuple_type, CTuple(objects))
      [] factory = "new_list" ->
            new_instance(version, None, list_type, CList(objects))
      [] factory = "new_set" ->
            new_instance(version, None, set_type, CSet(objects))
      [] factory = "new_frozenset" ->
            new_instance(version, None, frozenset_type, CFrozenSet(objects))

\* build_container! pushing the reference once the children are read.
build_container_reserves_late(d, factory, size, flag) ==
    LET d2 == read_objects(d, size, <<>>) IN
    IF Failed(d2) THEN d2
    ELSE LET obj_ref == d2.ref_id IN
         Ok(push_if([d2 EXCEPT !.store = (obj_ref :> factory_object(factory, d2.version, d2.value)) @@ @,
                               !.ref_id = @ + 1,
                               !.version = @ + 1], flag, obj_ref), obj_ref)

\* build_container!
build_container(d, factory, size, flag) ==
    IF flag
    THEN LET obj_ref == d.ref_id
             d1 == [d EXCEPT !.ref_id = @ + 1,
                             !.references = Append(@, obj_ref)]
             d2 == read_objects(d1, size, <<>>)
         IN  IF Failed(d2) THEN d2
             ELSE LET res == allocate_at(d2.store, obj_ref,
                                         factory_object(factory, d2.version, d2.value))
                  IN  IF res.panic # "" THEN Panic(d2, res.panic)
                      ELSE Ok([d2 EXCEPT !.store = res.all_objects,
                                         !.version = @ + 1], obj_ref)
    ELSE LET d2 == read_objects(d, size, <<>>) IN
         IF Failed(d2) THEN d2
         ELSE LET obj_ref == d2.ref_id IN
              Ok([d2 EXCEPT !.store = ObjectStore_allocate(@, obj_ref,
                                          factory_object(factory, d2.version, d2.value)),
                            !.ref_id = @ + 1,
                            !.version = @ + 1], obj_ref)

\* read_objects, vector being the objects read so far
read_objects(d, size, vector) ==
    IF size = 0 THEN Ok(d, vector)
    ELSE LET o == read_object(d) IN
         IF Failed(o) THEN o
         ELSE read_objects(o, size - 1, Append(vector, o.value))

\* The arm 'r' answering with a fresh copy of the object referred to.
read_object_r_copies(d) ==
    LET l == read_long(d) IN
    IF Failed(l) THEN l
    ELSE IF ~(as_usize(l.value) < Len(l.references)) THEN Panic(l, "assertion failed")
    ELSE LET target == l.references[as_usize(l.value) + 1] IN
         IF target \notin DOMAIN l.store THEN Ok(l, target)
         ELSE Ok([l EXCEPT !.store = (l.ref_id :> l.store[target]) @@ @,
                           !.ref_id = @ + 1], l.ref_id)

\* read_object, arm 'r'
read_object_r(d) ==
    LET l == read_long(d) IN
    IF Failed(l) THEN l
    ELSE IF ~(as_usize(l.value) < Len(l.references)) THEN Panic(l, "assertion failed")
    ELSE Ok(l, l.references[as_usize(l.value) + 1])

\* The arms N, F and T registering the singleton when the flag is set.
read_object_singleton_registers(d, flag, obj_ref) ==
    Ok(push_if(d, flag, obj_ref), obj_ref)

\* read_object, arms 'N', 'F' and 'T'
read_object_singleton(d, flag, obj_ref) == Ok(d, obj_ref)

(* read_object.  The arms modelled are '0' N F T i z Z u ')' '(' '[' '<'   *)
(* '>' and r; the inputs explored hold no s or c object, and any other     *)
(* opcode is unsupported.                                                  *)
read_object(d) ==
    LET b == read_byte([d EXCEPT !.calls = @ + 1]) IN
    IF Failed(b) THEN b
    ELSE
    LET byte == b.value
        flag == byte >= 128          \* byte & 0b10000000 != 0
        opcode == byte % 128         \* byte & 0b01111111
    IN
    CASE opcode = 48 -> Err(b, "UnexpectedCode")                    \* '0'
      [] opcode = 78 -> read_object_singleton(b, flag, none)        \* 'N'
      [] opcode = 70 -> read_object_singleton(b, flag, false_obj)   \* 'F'
      [] opcode = 84 -> read_object_singleton(b, flag, true_obj)    \* 'T'
      [] opcode = 105 ->                                            \* 'i'
            LET l == read_long(b) IN
            IF Failed(l) THEN l
            ELSE Ok(push_if(allocate(l, None, int_type, CInt(l.value)),
                            flag, NextRef(l)), NextRef(l))
      [] opcode \in {122, 90} ->                                    \* 'z' | 'Z'
            LET size == read_byte(b) IN
            IF Failed(size) THEN size
            ELSE LET s == read_ascii_string(size, size.value) IN
                 IF Failed(s) THEN s
                 ELSE Ok(push_if(allocate(s, None, str_type, CString(s.value)),
                                 flag, NextRef(s)), NextRef(s))
      [] opcode = 41 ->                                             \* ')'
            LET size == read_byte(b) IN
            IF Failed(size) THEN size
            ELSE build_container(size, "new_tuple", size.value, flag)
      [] opcode = 40 ->                                             \* '('
            LET size == read_long(b) IN
            IF Failed(size) THEN size
            ELSE build_container(size, "new_tuple", as_usize(size.value), flag)
      [] opcode = 91 ->                                             \* '['
            LET size == read_long(b) IN
            IF Failed(size) THEN size
            ELSE build_container(size, "new_list", as_usize(size.value), flag)
      [] opcode = 117 ->                                            \* 'u'
            LET size == read_long(b) IN
            IF Failed(size) THEN size
            ELSE LET s == read_unicode_string(size, as_usize(size.value)) IN
                 IF Failed(s) THEN s
                 ELSE Ok(push_if(allocate(s, None, str_type, CString(s.value)),
                                 flag, NextRef(s)), NextRef(s))
      [] opcode = 60 ->                                             \* '<'
            LET size == read_long(b) IN
            IF Failed(size) THEN size
            ELSE build_container(size, "new_set", as_usize(size.value), flag)
      [] opcode = 62 ->                                             \* '>'
            LET size == read_long(b) IN
            IF Failed(size) THEN size
            ELSE build_container(size, "new_frozenset", as_usize(size.value), FALSE)
      [] opcode = 114 -> read_object_r(b)                           \* 'r'
      [] OTHER -> Panic(b, "Unsupported opcode")

----------------------------------------------------------------------------
(* Decoding one object from a byte string, as get_obj! does: a fresh       *)
(* store holding the primitive objects, an empty table of references.       *)

\* The byte strings explored are made of at most MaxChunks of these
\* encodings of an object or of the head of a container.
MaxChunks == 3
Chunks ==
    { <<78>>,                       \* N
      <<48>>,                       \* 0
      <<63>>,                       \* ?
      <<233, 7, 0, 0, 0>>,          \* i 7, flagged
      <<122, 3, 102, 111, 111>>,    \* z "foo"
      <<218, 3, 102, 111, 111>>,    \* z "foo", flagged
      <<41, 2>>,                    \* ) of size 2
      <<169, 2>>,                   \* ) of size 2, flagged
      <<40, 1, 0, 0, 0>>,           \* ( of size 1
      <<91, 1, 0, 0, 0>>,           \* [ of size 1
      <<219, 1, 0, 0, 0>>,          \* [ of size 1, flagged
      <<188, 1, 0, 0, 0>>,          \* < of size 1, flagged
      <<190, 0, 0, 0, 0>>,          \* > of size 0, flagged
      <<190, 1, 0, 0, 0>>,          \* > of size 1, flagged
      <<114, 0, 0, 0, 0>>,          \* r 0
      <<114, 1, 0, 0, 0>> }         \* r 1

RECURSIVE Inputs(_)
Inputs(n) ==
    IF n = 0 THEN {<<>>}
    ELSE Inputs(n - 1) \cup {c \o i : c \in Chunks, i \in Inputs(n - 1)}

InitMarshal ==
    /\ reader \in Inputs(MaxChunks)
    /\ references = <<>>
    /\ decoder = <<>>
    /\ phase = ""
    /\ store = PrimitiveObjects
    /\ CURRENT_REF_ID = NbPrimitiveObjects
    /\ CURRENT_VERSION = NbPrimitiveObjects
    /\ other_store = <<>>
    /\ reserved = {}
    /\ call_stack = <<>>
    /\ modules = <<>>
    /\ status = "running"
    /\ error = ""
    /\ result = None
    /\ stdout = <<>>
    /\ instruction = None
    /\ unwind_args = None
    /\ steps = 0

\* read_object(&mut reader, &mut store, &primitive_objects, &mut refs)
ReadObject ==
    /\ status = "running"
    /\ LET d == read_object(Decoder) IN
       /\ reader' = d.reader
       /\ references' = d.references
       /\ store' = d.store
       /\ CURRENT_REF_ID' = d.ref_id
       /\ CURRENT_VERSION' = d.version
       /\ status' = IF d.panic # "" THEN "panic"
                    ELSE IF IsSome(d.err) THEN "Err" ELSE "Ok"
       /\ error' = IF d.panic # "" THEN d.panic
                   ELSE IF IsSome(d.err) THEN Unwrap(d.err) ELSE ""
       /\ result' = IF Failed(d) THEN None ELSE Some(d.value)
       /\ instruction' = Some(<<"read_object", d.calls>>)
    /\ steps' = steps + 1
    /\ UNCHANGED <<other_store, reserved, call_stack, modules, stdout, unwind_args,
                   decoder>>

\* get_obj!: the call is all the run does.
ExecReadObject == ReadObject /\ UNCHANGED phase

NextMarshal == ExecReadObject

SpecMarshal == InitMarshal /\ [][NextMarshal]_vars

----------------------------------------------------------------------------
(* Claims about the marshal decoder, checked under SpecMarshal.            *)

\* The reader starts with the bytes of prefix.
StartsWith(prefix) ==
    /\ Len(reader) >= Len(prefix)
    /\ SubSeq(reader, 1, Len(prefix)) = prefix
\* What the reader holds after prefix.
After(prefix) == SubSeq(reader, Len(prefix) + 1, Len(reader))

\* l = []; l.append(l): a flagged list of size 1 whose child is a
\* back-reference to index 0, the list's own index in an empty table.
SelfReferentialList == <<219, 1, 0, 0, 0, 114, 0, 0, 0, 0>>
\* A tuple of a flagged "foo" and a back-reference to it.
TupleOfTwoReferences == <<41, 2, 218, 3, 102, 111, 111, 114, 0, 0, 0, 0>>

\* C19: decoding a self-referential list ends after two calls of
\* read_object, consumes exactly the bytes of the list, and returns a
\* reference to a list whose single element is that same reference, the
\* one reserved in the table of references before the child was read.
C19_SelfReferentialList ==
    [][(status = "running" /\ references = <<>> /\ StartsWith(SelfReferentialList))
        => /\ status' = "Ok"
           /\ instruction' = Some(<<"read_object", 2>>)
           /\ reader' = After(SelfReferentialList)
           /\ IsSome(result')
           /\ Unwrap(result') = CURRENT_REF_ID
           /\ references' = <<Unwrap(result')>>
           /\ store'[Unwrap(result')].content = CList(<<Unwrap(result')>>)
           /\ store'[Unwrap(result')].class = list_type]_vars

\* A list that holds itself was decoded.
C19_Witness ==
    /\ status = "Ok"
    /\ IsSome(result)
    /\ Unwrap(result) \in DOMAIN store
    /\ store[Unwrap(result)].content = CList(<<Unwrap(result)>>)
    /\ references = <<Unwrap(result)>>

\* C20: a tuple whose first child is a flagged string and whose second
\* child is a back-reference to it decodes to a tuple of two elements
\* that are one and the same reference, bound to the string; no second
\* string object is made.
C20_BackReferenceIsIdentical ==
    [][(status = "running" /\ references = <<>> /\ StartsWith(TupleOfTwoReferences))
        => /\ status' = "Ok"
           /\ IsSome(result')
           /\ LET v == store'[Unwrap(result')].content IN
              /\ v.type = "Tuple"
              /\ Len(v.v) = 2
              /\ v.v[1] = v.v[2]
              /\ v.v[1] = references'[1]
              /\ store'[v.v[1]].content = CString(<<102, 111, 111>>)
           /\ DOMAIN store' = DOMAIN store \cup {CURRENT_REF_ID, CURRENT_REF_ID + 1}]_vars

\* A tuple of twice the same reference to a string was decoded.
C20_Witness ==
    /\ status = "Ok"
    /\ IsSome(result)
    /\ store[Unwrap(result)].content.type = "Tuple"
    /\ Len(store[Unwrap(result)].content.v) = 2
    /\ store[Unwrap(result)].content.v[1] = store[Unwrap(result)].content.v[2]
    /\ store[store[Unwrap(result)].content.v[1]].content.type = "String"
    /\ references = <<store[Unwrap(result)].content.v[1]>>

\* A back-reference to index k.
BackReference(k) == <<114, k, 0, 0, 0>>

\* C21: decoding a back-reference whose index is not below the length of
\* the table of references returns Err(UnmarshalError::InvalidReference)
\* and no reference.
C21_InvalidReferenceIsAnError ==
    [][\A k \in 0..1 :
        (status = "running" /\ StartsWith(BackReference(k)) /\ ~(k < Len(references)))
        => /\ status' = "Err"
           /\ error' = "InvalidReference"
           /\ result' = None]_vars

----------------------------------------------------------------------------
(* Decoding one leaf object (an int, a singleton or a string) from byte    *)
(* strings that vary the payload bytes.                                    *)

\* The strings explored hold at most MaxStringLen bytes.
MaxStringLen == 3
\* The bytes the payload of an int is drawn from.
ByteSamples == {0, 1, 127, 128, 255}
\* The bytes the payload of a string is drawn from: A, the bytes of the
\* UTF-8 encodings of e-acute (195 169) and of the euro sign (226 130 172),
\* the lead byte 237 of the surrogates, and 255.
StringSamples == {65, 195, 169, 226, 130, 172, 237, 255}

\* The sequences of at most n elements of S.
RECURSIVE SeqsOver(_, _)
SeqsOver(S, n) ==
    IF n = 0 THEN {<<>>}
    ELSE SeqsOver(S, n - 1) \cup {Append(q, x) : q \in SeqsOver(S, n - 1), x \in S}

\* i, plain and flagged, followed by up to four bytes.
IntInputs ==
    {<<tag>> \o bytes : tag \in {105, 233}, bytes \in SeqsOver(ByteSamples, 4)}
\* N, F and T, plain and flagged, alone or followed by another object.
SingletonInputs ==
    {<<tag>> \o rest : tag \in {78, 70, 84, 206, 198, 212}, rest \in {<<>>, <<78>>}}
\* z, plain and flagged, with a length byte, and u, plain and flagged,
\* with a four-byte length, followed by the bytes of the string.
StringInputs ==
    {<<tag, k>> \o bytes : tag \in {122, 218}, k \in 0..MaxStringLen,
                           bytes \in SeqsOver(StringSamples, MaxStringLen)}
    \cup
    {<<tag, k, 0, 0, 0>> \o bytes : tag \in {117, 245}, k \in 0..MaxStringLen,
                                    bytes \in SeqsOver(StringSamples, MaxStringLen)}

InitLeaf ==
    /\ reader \in IntInputs \cup SingletonInputs \cup StringInputs
    /\ references = <<>>
    /\ store = PrimitiveObjects
    /\ CURRENT_REF_ID = NbPrimitiveObjects
    /\ CURRENT_VERSION = NbPrimitiveObjects
    /\ other_store = <<>>
    /\ reserved = {}
    /\ decoder = <<>>
    /\ phase = ""
    /\ call_stack = <<>>
    /\ modules = <<>>
    /\ status = "running"
    /\ error = ""
    /\ result = None
    /\ stdout = <<>>
    /\ instruction = None
    /\ unwind_args = None
    /\ steps = 0

SpecLeaf == InitLeaf /\ [][NextMarshal]_vars

----------------------------------------------------------------------------
(* Claims about the decoding of leaves, checked under SpecLeaf.            *)

\* The reader holds exactly n bytes after its first k.
Payload(k, n) == SubSeq(reader, k + 1, k + n)

\* C22: the flagged int tag followed by the four bytes b1 b2 b3 b4 of n,
\* least significant first, decodes to a new Int object equal to the
\* unsigned n = (b1 + 256 b2) + 65536 (b3 + 256 b4), whose reference is
\* entry 0 of the table of references.
C22_FlaggedInt ==
    [][\A b1 \in ByteSamples, b2 \in ByteSamples, b3 \in ByteSamples, b4 \in ByteSamples :
        (status = "running" /\ reader = <<233, b1, b2, b3, b4>>)
        => /\ status' = "Ok"
           /\ result' = Some(CURRENT_REF_ID)
           /\ store'[CURRENT_REF_ID].content = CInt(U32(b1 + 256 * b2, b3 + 256 * b4))
           /\ store'[CURRENT_REF_ID].class = int_type
           /\ references' = <<CURRENT_REF_ID>>
           /\ reader' = <<>>]_vars

\* The int 4294967040 (bytes 00 ff ff ff) was decoded and registered.
C22_Witness ==
    /\ status = "Ok"
    /\ IsSome(result)
    /\ store[Unwrap(result)].content = CInt(U32(65280, 65535))
    /\ references = <<Unwrap(result)>>

\* The singleton an N, F or T byte stands for, flagged or not.
SingletonOf(byte) ==
    CASE byte % 128 = 78 -> none
      [] byte % 128 = 70 -> false_obj
      [] byte % 128 = 84 -> true_obj

\* C23: decoding the byte of None, True or False, with or without the
\* flag bit, returns the reference of the singleton PrimitiveObjects made,
\* consumes that byte only, allocates no object and leaves the table of
\* references as it was.
C23_Singletons ==
    [][(status = "running" /\ reader # <<>>
        /\ reader[1] \in {78, 70, 84, 206, 198, 212})
        => /\ status' = "Ok"
           /\ result' = Some(SingletonOf(reader[1]))
           /\ reader' = Tail(reader)
           /\ store' = store
           /\ CURRENT_REF_ID' = CURRENT_REF_ID
           /\ references' = references]_vars

\* The byte of True was decoded and the object after it left unread.
C23_Witness ==
    /\ status = "Ok"
    /\ result = Some(true_obj)
    /\ instruction = Some(<<"read_object", 1>>)
    /\ references = <<>>
    /\ reader = <<78>>
    /\ DOMAIN store = DOMAIN PrimitiveObjects

\* The Unicode scalar values: the code points but the surrogates.
IsScalarValue(cp) == cp \in 0..1114111 /\ cp \notin 55296..57343

\* The UTF-8 encoding of a scalar value, and of a sequence of them.
utf8_encode_char(cp) ==
    CASE cp < 128 -> <<cp>>
      [] cp \in 128..2047 -> <<192 + (cp \div 64), 128 + (cp % 64)>>
      [] cp \in 2048..65535 ->
            <<224 + (cp \div 4096), 128 + ((cp \div 64) % 64), 128 + (cp % 64)>>
      [] OTHER ->
            <<240 + (cp \div 262144), 128 + ((cp \div 4096) % 64),
              128 + ((cp \div 64) % 64), 128 + (cp % 64)>>
RECURSIVE utf8_encode(_)
utf8_encode(chars) ==
    IF chars = <<>> THEN <<>>
    ELSE utf8_encode_char(Head(chars)) \o utf8_encode(Tail(chars))

\* The scalar values whose encoding is made of the bytes explored.
EncodableChars ==
    {cp \in 0..65535 :
        /\ IsScalarValue(cp)
        /\ \A i \in 1..Len(utf8_encode_char(cp)) :
              utf8_encode_char(cp)[i] \in StringSamples}

\* bytes is the encoding of a sequence of scalar values.
RECURSIVE ValidUtf8(_)
ValidUtf8(bytes) ==
    \/ bytes = <<>>
    \/ \E cp \in EncodableChars :
          LET e == utf8_encode_char(cp) IN
          /\ Len(e) <= Len(bytes)
          /\ SubSeq(bytes, 1, Len(e)) = e
          /\ ValidUtf8(SubSeq(bytes, Len(e) + 1, Len(bytes)))

\* The String the decoder returned.
DecodedString == store'[Unwrap(result')].content

\* C24: the short-ASCII tag with length byte k followed by k bytes decodes
\* to a String of k chars, the i-th char having the i-th byte as its code
\* point, bytes of 128 and more included.  The tag u with a four-byte
\* length k followed by k bytes decodes, when the bytes are the UTF-8
\* encoding of a sequence of chars, to the String of these chars, and
\* returns Err(Decoding) and no reference when they are not valid UTF-8.
C24_Strings ==
    [][/\ \A k \in 0..MaxStringLen + 1 :
            (status = "running" /\ Len(reader) >= 2 + k
             /\ reader[1] \in {122, 218} /\ reader[2] = k)
            => /\ status' = "Ok"
               /\ IsSome(result')
               /\ DecodedString.type = "String"
               /\ Len(DecodedString.s) = k
               /\ \A i \in 1..k : DecodedString.s[i] = reader[2 + i]
               /\ reader' = SubSeq(reader, 3 + k, Len(reader))
       /\ \A k \in 0..MaxStringLen + 1 :
            (status = "running" /\ Len(reader) >= 5 + k
             /\ reader[1] \in {117, 245}
             /\ SubSeq(reader, 2, 5) = <<k, 0, 0, 0>>)
            => IF ValidUtf8(Payload(5, k))
               THEN /\ status' = "Ok"
                    /\ IsSome(result')
                    /\ DecodedString.type = "String"
                    /\ \A i \in 1..Len(DecodedString.s) :
                          IsScalarValue(DecodedString.s[i])
                    /\ utf8_encode(DecodedString.s) = Payload(5, k)
                    /\ reader' = SubSeq(reader, 6 + k, Len(reader))
               ELSE /\ status' = "Err"
                    /\ error' = "Decoding"
                    /\ result' = None]_vars

\* The three bytes of the UTF-8 encoding of the euro sign were decoded to
\* the one char 8364.
C24_Witness ==
    /\ status = "Ok"
    /\ IsSome(result)
    /\ store[Unwrap(result)].content = CString(<<8364>>)
    /\ reader = <<>>

----------------------------------------------------------------------------
(* The order of the table of references, checked under SpecMarshal.        *)

\* The number of bytes of the tag at the head of bytes and of what
\* belongs to it but its children.
TokenLen(bytes) ==
    LET opcode == bytes[1] % 128 IN
    CASE opcode \in {105, 40, 91, 60, 62, 114} -> 5
      [] opcode \in {122, 90} -> 2 + bytes[2]
      [] opcode = 41 -> 2
      [] OTHER -> 1

\* The kind of value that takes an index when its tag is flagged, "" for
\* the tags that never take one.
IndexedKind(opcode) ==
    CASE opcode = 105 -> "Int"
      [] opcode \in {122, 90} -> "String"
      [] opcode \in {41, 40} -> "Tuple"
      [] opcode = 91 -> "List"
      [] opcode = 60 -> "Set"
      [] OTHER -> ""

\* The kinds of the flagged values of a byte string, in stream order.
RECURSIVE FlaggedKinds(_)
FlaggedKinds(bytes) ==
    IF bytes = <<>> THEN <<>>
    ELSE LET kind == IndexedKind(bytes[1] % 128) IN
         (IF bytes[1] >= 128 /\ kind # "" THEN <<kind>> ELSE <<>>)
         \o FlaggedKinds(SubSeq(bytes, TokenLen(bytes) + 1, Len(bytes)))

\* The bytes the step consumed.
Consumed == SubSeq(reader, 1, Len(reader) - Len(reader'))

\* C25: after a successful decoding the table of references holds one
\* entry for each flagged value read, in the order of their tags in the
\* stream: a flagged container comes before its flagged children, a
\* flagged leaf takes the next index, and a frozenset, flagged or not,
\* takes none.  The references of the table increase, as the references
\* are drawn in that order.
C25_TableFollowsStreamOrder ==
    [][(status = "running" /\ status' = "Ok")
        => /\ Len(references') = Len(FlaggedKinds(Consumed))
           /\ \A i \in 1..Len(references') :
                 /\ references'[i] \in DOMAIN store'
                 /\ store'[references'[i]].content.type = FlaggedKinds(Consumed)[i]
           /\ \A i \in 1..Len(references'), j \in 1..Len(references') :
                 i < j => references'[i] < references'[j]]_vars

\* A tuple of a flagged frozenset and a flagged string was decoded: the
\* string has index 0.
C25_Witness ==
    /\ status = "Ok"
    /\ IsSome(result)
    /\ store[Unwrap(result)].content.type = "Tuple"
    /\ Len(store[Unwrap(result)].content.v) = 2
    /\ store[store[Unwrap(result)].content.v[1]].content = CFrozenSet(<<>>)
    /\ store[store[Unwrap(result)].content.v[2]].content.type = "String"
    /\ references = <<store[Unwrap(result)].content.v[2]>>

----------------------------------------------------------------------------
(* The instruction decoder (processor/instructions.rs), as Frame::new      *)
(* drives it: next is called until it returns None and the instructions    *)
(* are collected.                                                          *)

\* CmpOperator::from_bytecode
from_bytecode(n) ==
    IF n <= 10
    THEN Some(<<"Lt", "Leq", "Eq", "Neq", "Gt", "Geq", "In", "NotIn", "Is",
                "IsNot", "ExceptionMatch">>[n + 1])
    ELSE None

\* InstructionDecoder::new
InstructionDecoder_new(bytes) ==
    [bytestream |-> bytes, arg_prefix |-> None, pending_nops |-> 0,
     panic |-> "", item |-> None]

\* bytestream.next()
bytestream_next(dec) == [dec EXCEPT !.bytestream = Tail(@)]

(* InstructionDecoder::read_argument; item is the u32 it returns.          *)
(* (prefix << 16) + arg keeps the low half of the prefix as the high half  *)
(* of the result, arg being below 2^16.                                    *)
read_argument(dec) ==
    IF Len(dec.bytestream) < 2
    THEN [dec EXCEPT !.bytestream = <<>>,
                     !.panic = "End of stream in the middle of an instruction."]
    ELSE LET b1 == dec.bytestream[1]
             b2 == dec.bytestream[2]
             arg == b2 * 256 + b1
         IN  [dec EXCEPT !.bytestream = Tail(Tail(@)),
                         !.pending_nops = (@ + 2) % 256,
                         !.arg_prefix = None,
                         !.item = IF IsSome(dec.arg_prefix)
                                  THEN U32(arg, Unwrap(dec.arg_prefix).lo)
                                  ELSE U32(arg, 0)]

\* The instruction of an opcode that takes no argument or its operand byte.
OneSlot(dec, inst) == [dec EXCEPT !.item = Some(inst)]

(* InstructionDecoder::next; item is the Option<Instruction> it returns.   *)
next(dec) ==
    IF dec.pending_nops # 0
    THEN [dec EXCEPT !.pending_nops = @ - 1, !.item = Some(<<"Nop">>)]
    ELSE IF Len(dec.bytestream) < 2
    THEN [dec EXCEPT !.bytestream = <<>>, !.item = None]
    ELSE
    LET opcode == dec.bytestream[1]
        oparg == dec.bytestream[2]
        d == bytestream_next(bytestream_next(dec))
    IN
    CASE opcode = 1 -> OneSlot(d, <<"PopTop">>)
      [] opcode = 4 -> OneSlot(d, <<"DupTop">>)
      [] opcode = 25 -> OneSlot(d, <<"BinarySubscr">>)
      [] opcode = 68 -> OneSlot(d, <<"GetIter">>)
      [] opcode = 71 -> OneSlot(d, <<"LoadBuildClass">>)
      [] opcode = 83 -> OneSlot(d, <<"ReturnValue">>)
      [] opcode = 87 -> OneSlot(d, <<"PopBlock">>)
      [] opcode = 88 -> OneSlot(d, <<"EndFinally">>)
      [] opcode = 89 -> OneSlot(d, <<"PopExcept">>)
      [] opcode = 90 -> OneSlot(d, <<"StoreName", oparg>>)
      [] opcode = 93 -> OneSlot(d, <<"ForIter", oparg>>)
      [] opcode = 95 -> OneSlot(d, <<"StoreAttr", oparg>>)
      [] opcode = 97 -> OneSlot(d, <<"StoreGlobal", oparg>>)
      [] opcode = 100 -> OneSlot(d, <<"LoadConst", oparg>>)
      [] opcode = 101 -> OneSlot(d, <<"LoadName", oparg>>)
      [] opcode = 102 -> OneSlot(d, <<"BuildTuple", oparg>>)
      [] opcode = 106 -> OneSlot(d, <<"LoadAttr", oparg>>)
      [] opcode = 107 ->
            IF IsSome(from_bytecode(oparg))
            THEN OneSlot(d, <<"CompareOp", Unwrap(from_bytecode(oparg))>>)
            ELSE [d EXCEPT !.panic = "Invalid cmp operator code."]
      [] opcode = 110 -> OneSlot(d, <<"JumpForward", oparg>>)
      [] opcode = 113 -> OneSlot(d, <<"JumpAbsolute", oparg>>)
      [] opcode = 114 -> OneSlot(d, <<"PopJumpIfFalse", oparg>>)
      [] opcode = 116 -> OneSlot(d, <<"LoadGlobal", oparg>>)
      [] opcode = 120 -> OneSlot(d, <<"SetupLoop", oparg + 1>>)
      [] opcode = 121 -> OneSlot(d, <<"SetupExcept", oparg + 1>>)
      [] opcode = 124 -> OneSlot(d, <<"LoadFast", oparg>>)
      [] opcode = 125 -> OneSlot(d, <<"StoreFast", oparg>>)
      [] opcode = 130 ->
            LET a == read_argument(d) IN
            IF a.panic # "" THEN a
            ELSE [a EXCEPT !.item = Some(<<"RaiseVarargs", a.item.lo>>)]  \* as u16
      [] opcode = 131 -> OneSlot(d, <<"CallFunction", oparg, 0>>)
      [] opcode = 132 ->
            OneSlot(d, <<"MakeFunction", oparg % 2 # 0, (oparg \div 2) % 2 # 0,
                         (oparg \div 4) % 2 # 0, (oparg \div 8) % 2 # 0>>)
      [] opcode = 156 -> OneSlot(d, <<"BuildConstKeyMap", oparg>>)
      [] opcode = 144 ->
            LET a == read_argument(d) IN
            IF a.panic # "" THEN a
            ELSE [a EXCEPT !.arg_prefix = Some(a.item), !.item = Some(<<"Nop">>)]
      [] OTHER -> [d EXCEPT !.panic = "Opcode not supported"]

\* The byte strings decoded hold at most MaxCodeLen bytes, drawn from: an
\* unsupported opcode, PopTop, DupTop, ReturnValue, LoadConst, JumpAbsolute,
\* LoadFast, RaiseVarargs and the extended argument.
MaxCodeLen == 4
CodeBytes == {0, 1, 4, 83, 100, 113, 124, 130, 144}

\* Frame::new, up to the first call of next: decoder holds the decoder,
\* code.code and the instructions collected so far.
InitDecode ==
    /\ \E bytes \in SeqsOver(CodeBytes, MaxCodeLen) :
          decoder = [dec |-> InstructionDecoder_new(bytes), code |-> bytes,
                     instructions |-> <<>>]
    /\ store = PrimitiveObjects
    /\ CURRENT_REF_ID = NbPrimitiveObjects
    /\ CURRENT_VERSION = NbPrimitiveObjects
    /\ other_store = <<>>
    /\ reserved = {}
    /\ reader = <<>>
    /\ references = <<>>
    /\ phase = ""
    /\ call_stack = <<>>
    /\ modules = <<>>
    /\ status = "running"
    /\ error = ""
    /\ result = None
    /\ stdout = <<>>
    /\ instruction = None
    /\ unwind_args = None
    /\ steps = 0

\* One call of next by collect: the instruction is kept, None ends the
\* collection.
DecoderNext ==
    /\ status = "running"
    /\ LET dec == next(decoder.dec) IN
       /\ decoder' = [decoder EXCEPT
                         !.dec = dec,
                         !.instructions = IF dec.panic = "" /\ IsSome(dec.item)
                                          THEN Append(@, Unwrap(dec.item)) ELSE @]
       /\ status' = IF dec.panic # "" THEN "panic"
                    ELSE IF IsSome(dec.item) THEN "running" ELSE "collected"
       /\ error' = dec.panic
    /\ steps' = steps + 1
    /\ UNCHANGED <<store, CURRENT_REF_ID, CURRENT_VERSION, call_stack, modules,
                   result, stdout, instruction, unwind_args, other_store,
                   reserved, reader, references, phase>>

NextDecode == DecoderNext

SpecDecode == InitDecode /\ [][NextDecode]_vars

----------------------------------------------------------------------------
(* C26, C27: the decoded sequence against the 2-byte slots of the bytes.   *)

\* The opcode and the operand byte of slot k (byte offset 2k).
SlotOpcode(k) == decoder.code[2 * k + 1]
SlotOperand(k) == decoder.code[2 * k + 2]
NbSlots == Len(decoder.code) \div 2

\* The instruction a slot encodes, by the opcode table of next.
Mnemonic(opcode) ==
    CASE opcode = 1 -> "PopTop"
      [] opcode = 4 -> "DupTop"
      [] opcode = 100 -> "LoadConst"
      [] opcode = 113 -> "JumpAbsolute"
      [] opcode = 130 -> "RaiseVarargs"
      [] OTHER -> "?"

\* The bytes are whole slots of instructions, none an extended argument.
OnlyInstructions ==
    /\ Len(decoder.code) = 2 * NbSlots
    /\ \A k \in 0..(NbSlots - 1) : SlotOpcode(k) \in {1, 4, 100, 113, 130}

(* C26: when the bytes are whole 2-byte slots of supported instructions,   *)
(* the decoder emits exactly one instruction per slot: the instruction     *)
(* encoded at byte offset 2k is at index k of the decoded sequence, the    *)
(* index 2k / WORD_SIZE that JumpAbsolute(2k) sets the program counter to. *)
C26_OneInstructionPerSlot ==
    (status = "collected" /\ OnlyInstructions)
    => /\ Len(decoder.instructions) = NbSlots
       /\ \A k \in 0..(NbSlots - 1) :
             decoder.instructions[(2 * k) \div WORD_SIZE + 1][1]
                = Mnemonic(SlotOpcode(k))

(* C27: an extended argument with operand p >= 1 followed by LoadConst     *)
(* with operand byte a is decoded to a LoadConst whose operand is built    *)
(* from p and a (p shifted by 8 or by 16 bits, plus a), and a LoadConst    *)
(* after it keeps its own operand byte.                                    *)
C27_ExtendedArgument ==
    (/\ status = "collected"
     /\ Len(decoder.code) >= 4
     /\ SlotOpcode(0) = 144 /\ SlotOperand(0) >= 1
     /\ SlotOpcode(1) = 100)
    => /\ \E i \in 1..Len(decoder.instructions) :
             /\ decoder.instructions[i][1] = "LoadConst"
             /\ decoder.instructions[i][2] \in
                   {256 * SlotOperand(0) + SlotOperand(1),
                    65536 * SlotOperand(0) + SlotOperand(1)}
       /\ decoder.dec.arg_prefix = None

----------------------------------------------------------------------------
(* The instructions of a module that defines a function and of one that    *)
(* prints: StoreName, LoadAttr, MakeFunction (processor/mod.rs).           *)

\* PrimitiveObjects.names_map
names_map ==
    [n \in {"object", "tuple", "nonetype", "None", "True", "False", "int",
            "bool", "list", "set", "frozenset", "bytes", "str", "function",
            "code", "module", "BaseException", "ProcessorError", "Exception",
            "NameError", "AttributeError", "TypeError", "StopIteration",
            "LookupError", "KeyError"} |->
        CASE n = "object" -> object
          [] n = "tuple" -> tuple_type
          [] n = "nonetype" -> none_type
          [] n = "None" -> none
          [] n = "True" -> true_obj
          [] n = "False" -> false_obj
          [] n = "int" -> int_type
          [] n = "bool" -> bool_type
          [] n = "list" -> list_type
          [] n = "set" -> set_type
          [] n = "frozenset" -> frozenset_type
          [] n = "bytes" -> bytes_type
          [] n = "str" -> str_type
          [] n = "function" -> function_type
          [] n = "code" -> code_type
          [] n = "module" -> module
          [] n = "BaseException" -> baseexception
          [] n = "ProcessorError" -> processorerror
          [] n = "Exception" -> exception
          [] n = "NameError" -> nameerror
          [] n = "AttributeError" -> attributeerror
          [] n = "TypeError" -> typeerror
          [] n = "StopIteration" -> stopiteration
          [] n = "LookupError" -> lookuperror
          [] n = "KeyError" -> keyerror]

(* load_attr: the machine (it may allocate) and the Option<ObjectRef>.     *)
(* No object of these programs has attributes: StoreAttr is not among      *)
(* their instructions and the objects are made by new_instance.            *)
load_attr(m, obj, name) ==
    IF name = "__bases__"
    THEN IF IsSome(obj.bases)
         THEN [m |-> allocate(m, None, tuple_type, CTuple(Unwrap(obj.bases))),
               res |-> Some(NextRef(m))]
         ELSE [m |-> m, res |-> Some(none)]
    ELSE IF name = "__name__"
    THEN IF IsSome(obj.name)
         THEN [m |-> allocate(m, None, str_type, CString(Unwrap(obj.name))),
               res |-> Some(NextRef(m))]
         ELSE [m |-> m, res |-> None]
    ELSE IF obj.content.type = "PrimitiveNamespace"
    THEN IF name \in DOMAIN names_map
         THEN [m |-> m, res |-> Some(names_map[name])]
         ELSE [m |-> allocate(m, Some(name), function_type, CPrimitiveFunction(name)),
               res |-> Some(NextRef(m))]
    ELSE [m |-> m, res |-> None]

\* Instruction::StoreName(i)
StoreName(m0, i) ==
    LET m == Fetch(m0)
        name == VecGet(Top(m).code.names, i)
    IN  IF ~IsSome(name) THEN raise_processor_error(m, "InvalidNameIndex")
        ELSE IF Top(m).var_stack = <<>> THEN raise_processor_error(m, "StackTooSmall")
        ELSE InsertLocal(PopFrame(m), Unwrap(name), Last(Top(m).var_stack))

\* Instruction::LoadAttr(i)
LoadAttr(m0, i) ==
    LET m == Fetch(m0)
        name == VecGet(Top(m).code.names, i)
    IN  IF ~IsSome(name) THEN raise_processor_error(m, "InvalidNameIndex")
        ELSE IF Top(m).var_stack = <<>> THEN raise_processor_error(m, "StackTooSmall")
        ELSE LET obj == m.store[Last(Top(m).var_stack)]
                 r == load_attr(PopFrame(m), obj, Unwrap(name))
             IN  IF IsSome(r.res) THEN Push(r.m, Unwrap(r.res))
                 ELSE raise(r.m, nameerror, <<"Unknown attribute", Unwrap(name)>>)

RECURSIVE make_kwdefaults(_, _, _)
\* The loop of MakeFunction over the pairs of the dict of keyword defaults.
make_kwdefaults(objs, raw_kwdefaults, kwdefaults) ==
    IF raw_kwdefaults = <<>> THEN [panic |-> "", kwdefaults |-> kwdefaults]
    ELSE LET key == Head(raw_kwdefaults)[1]
             value == Head(raw_kwdefaults)[2]
         IN  IF objs[key].content.type # "String"
             THEN [panic |-> "Defaults' keys must be strings.",
                   kwdefaults |-> kwdefaults]
             ELSE make_kwdefaults(objs, Tail(raw_kwdefaults),
                                  Insert(kwdefaults, objs[key].content.s, value))

(* Instruction::MakeFunction { has_defaults: false, has_kwdefaults,        *)
(* has_annotations: false, has_closure: false }                            *)
MakeFunction(m0, has_kwdefaults) ==
    LET m == Fetch(m0)
        stack == Top(m).var_stack
    IN  IF stack = <<>> THEN raise_processor_error(m, "StackTooSmall")
        ELSE
        LET obj == m.store[Last(stack)].content
            m1 == PopFrame(m)
        IN  IF obj.type # "String"
            THEN raise(m1, typeerror, <<"function names must be strings, not", obj>>)
            ELSE IF Len(stack) < 2 THEN raise_processor_error(m1, "StackTooSmall")
            ELSE
            LET code == stack[Len(stack) - 1]
                m2 == PopFrame(m1)
                func(mm, kwdefaults) ==
                    Push(allocate(mm, Some(obj.s), function_type,
                                  CFunction(module_of(mm.store, Top(mm).object),
                                            code, kwdefaults)),
                         NextRef(mm))
            IN  IF ~has_kwdefaults THEN func(m2, EmptyDict)
                ELSE IF Len(stack) < 3 THEN raise_processor_error(m2, "StackTooSmall")
                ELSE LET raw == m.store[stack[Len(stack) - 2]].content
                         m3 == PopFrame(m2)
                     IN  IF raw.type # "Dict" THEN Panic(m3, "bad type for default kwd")
                         ELSE LET kw == make_kwdefaults(m.store, raw.d, EmptyDict)
                              IN  IF kw.panic # "" THEN Panic(m3, kw.panic)
                                  ELSE func(m3, kw.kwdefaults)

(* run_code (processor/mod.rs): the instructions of loops, branches,       *)
(* handlers and stores.                                                    *)

\* VectorVarStack::pop_all_and_get_n_last: truncate(nb), then drain(..)
pop_all_and_get_n_last(stack, nb) ==
    IF Len(stack) < nb THEN [ok |-> FALSE, stack |-> stack, items |-> <<>>]
    ELSE [ok |-> TRUE, stack |-> <<>>, items |-> SubSeq(stack, 1, nb)]

\* Instruction::PopBlock
PopBlock(m0) ==
    LET m == Fetch(m0)
    IN  IF Top(m).block_stack = <<>> THEN raise_processor_error(m, "StackTooSmall")
        ELSE SetTop(m, [Top(m) EXCEPT !.block_stack = Front(@)])

\* Instruction::JumpAbsolute(target)
JumpAbsolute(m0, target) ==
    LET m == Fetch(m0)
    IN  SetTop(m, [Top(m) EXCEPT !.program_counter = target \div WORD_SIZE])

\* Instruction::JumpForward(delta)
JumpForward(m0, delta) ==
    LET m == Fetch(m0)
    IN  SetTop(m, [Top(m) EXCEPT !.program_counter = @ + (delta \div WORD_SIZE)])

\* Instruction::PopJumpIfFalse(target)
PopJumpIfFalse(m0, target) ==
    LET m == Fetch(m0)
    IN  IF Top(m).var_stack = <<>> THEN raise_processor_error(m, "StackTooSmall")
        ELSE LET obj == m.store[Last(Top(m).var_stack)]
                 m1 == PopFrame(m)
             IN  CASE obj.content.type = "True" -> m1
                   [] obj.content.type = "False" ->
                        SetTop(m1, [Top(m1) EXCEPT !.program_counter = target])
                   [] OTHER -> Panic(m1, "not implemented")

\* StoreFast on locals that are the function's map of defaults itself.
StoreFast_into_defaults(m0, i) ==
    LET m == Fetch(m0)
        name == VecGet(Top(m).code.varnames, i)
    IN  IF ~IsSome(name) THEN raise_processor_error(m, "InvalidVarnameIndex")
        ELSE IF Top(m).var_stack = <<>> THEN raise_processor_error(m, "StackTooSmall")
        ELSE LET m1 == InsertLocal(PopFrame(m), Unwrap(name), Last(Top(m).var_stack))
             IN  IF m.store[Top(m).object].content.type # "Function" THEN m1
                 ELSE [m1 EXCEPT !.store[Top(m).object].content.defaults =
                          Insert(@, Unwrap(name), Last(Top(m).var_stack))]

\* Instruction::StoreFast(i)
StoreFast(m0, i) ==
    LET m == Fetch(m0)
        name == VecGet(Top(m).code.varnames, i)
    IN  IF ~IsSome(name) THEN raise_processor_error(m, "InvalidVarnameIndex")
        ELSE IF Top(m).var_stack = <<>> THEN raise_processor_error(m, "StackTooSmall")
        ELSE InsertLocal(PopFrame(m), Unwrap(name), Last(Top(m).var_stack))

\* Instruction::StoreGlobal(i)
StoreGlobal(m0, i) ==
    LET m == Fetch(m0)
        name == VecGet(Top(m).code.varnames, i)
        module_name == module_of(m.store, Top(m).object)
    IN  IF ~IsSome(name) THEN raise_processor_error(m, "InvalidVarnameIndex")
        ELSE IF module_name \notin DOMAIN m.modules THEN Panic(m, "unwrap on None")
        ELSE IF Top(m).var_stack = <<>> THEN raise_processor_error(m, "StackTooSmall")
        ELSE [PopFrame(m) EXCEPT !.modules[module_name] =
                 Insert(@, Unwrap(name), Last(Top(m).var_stack))]

\* Instruction::CompareOp(CmpOperator::ExceptionMatch)
CompareOpExceptionMatch(m0) ==
    LET m == Fetch(m0)
        stack == Top(m).var_stack
    IN  IF Len(stack) < 2 THEN raise_processor_error(m, "StackTooSmall")
        ELSE LET pattern_ref == stack[Len(stack)]
                 exc_ref == stack[Len(stack) - 1]
                 val == IF native_isinstance(m.store, exc_ref, pattern_ref)
                        THEN true_obj ELSE false_obj
             IN  Push(PopFrame(PopFrame(m)), val)

\* Instruction::EndFinally
EndFinally(m0) ==
    LET m == Fetch(m0)
        stack == Top(m).var_stack
    IN  IF stack = <<>> THEN raise_processor_error(m, "StackTooSmall")
        ELSE
        LET status_ref == Last(stack)
            status_content == m.store[status_ref].content
            m1 == PopFrame(m)
        IN  CASE status_content.type = "Int" -> Panic(m1, "TODO: finally int status")
              [] status_content.type = "OtherObject" ->
                    IF Len(stack) < 3 THEN raise_processor_error(m1, "StackTooSmall")
                    ELSE LET val == stack[Len(stack) - 1]
                             traceback == stack[Len(stack) - 2]
                             m2 == PopFrame(PopFrame(m1))
                         IN  IF Top(m2).block_stack = <<>>
                             THEN Panic(m2, "unwrap on None")
                             ELSE unwind(SetTop(m2, [Top(m2) EXCEPT
                                                        !.block_stack = Front(@)]),
                                         traceback, status_ref, val)
              [] status_content.type = "None" -> m1
              [] OTHER -> Panic(m1, "Invalid finally status")

\* Instruction::PopExcept
PopExcept(m0) ==
    LET m == Fetch(m0)
        three_last == pop_all_and_get_n_last(Top(m).var_stack, 3)
    IN  IF ~three_last.ok THEN Panic(m, "unwrap on None")
        ELSE LET m1 == SetTop(m, [Top(m) EXCEPT !.var_stack = three_last.stack])
             IN  IF Top(m1).block_stack = <<>>
                 THEN raise_processor_error(m1, "StackTooSmall")
                 ELSE SetTop(m1, [Top(m1) EXCEPT !.block_stack = Front(@)])

RECURSIVE collect(_, _)
(* Frame::new: InstructionDecoder::new(code.code.iter()).collect(); the    *)
(* result is the Vec, or the panic of the decoder.                         *)
collect(dec, instructions) ==
    CHOOSE r \in
        {IF d.panic # "" THEN [panic |-> d.panic, instructions |-> instructions]
         ELSE IF ~IsSome(d.item) THEN [panic |-> "", instructions |-> instructions]
         ELSE collect(d, Append(instructions, Unwrap(d.item)))
           : d \in {next(dec)}} : TRUE

\* frame.instructions: Frame::new decodes code.code, which no instruction
\* changes; the Code keeps the result next to its bytes.
instructions_of(code) == code.instructions

(* One turn of the loop of run_code on a frame whose instructions were     *)
(* decoded from code.code: the fetch and the match on the instruction.     *)
(* fetched is the instruction, None for an invalid program counter.        *)
fetched(m) == VecGet(instructions_of(Top(m).code), Top(m).program_counter)

run_code(m) ==
    IF ~IsSome(fetched(m)) THEN raise_processor_error(m, "InvalidProgramCounter")
    ELSE
    LET ins == Unwrap(fetched(m))
        op == ins[1]
    IN  CASE op = "PopTop" -> PopTop(m)
          [] op = "DupTop" -> DupTop(m)
          [] op = "ReturnValue" -> ReturnValue(m)
          [] op = "StoreName" -> StoreName(m, ins[2])
          [] op = "LoadConst" -> LoadConst(m, ins[2])
          [] op \in {"LoadName", "LoadGlobal"} -> LoadName(m, ins[2])
          [] op = "LoadAttr" -> LoadAttr(m, ins[2])
          [] op = "LoadFast" -> LoadFast(m, ins[2])
          [] op = "GetIter" -> GetIter(m)
          [] op = "PopBlock" -> PopBlock(m)
          [] op = "EndFinally" -> EndFinally(m)
          [] op = "PopExcept" -> PopExcept(m)
          [] op = "StoreGlobal" -> StoreGlobal(m, ins[2])
          [] op = "StoreFast" -> StoreFast(m, ins[2])
          [] op = "ForIter" -> ForIter(m, ins[2])
          [] op = "SetupLoop" -> SetupLoop(m, ins[2])
          [] op = "SetupExcept" -> SetupExcept(m, ins[2])
          [] op = "CompareOp" /\ ins[2] = "ExceptionMatch" -> CompareOpExceptionMatch(m)
          [] op = "JumpAbsolute" -> JumpAbsolute(m, ins[2])
          [] op = "JumpForward" -> JumpForward(m, ins[2])
          [] op = "PopJumpIfFalse" -> PopJumpIfFalse(m, ins[2])
          [] op = "RaiseVarargs" /\ ins[2] = 1 -> RaiseVarargs1(m)
          [] op = "CallFunction" -> CallFunction(m, ins[2], ins[3])
          [] op = "MakeFunction" /\ ~ins[2] /\ ~ins[4] /\ ~ins[5] ->
                MakeFunction(m, ins[3])
          [] OTHER -> Panic(Fetch(m), "todo: instruction")

----------------------------------------------------------------------------
(* call_main_code (processor/mod.rs): the builtins module is loaded and    *)
(* run, then the main module.                                              *)

\* The bytecode of print in pythonlib/builtins.py (test_module of
\* marshal/decode.rs), one 2-byte slot per instruction:
\*   __primitives__.write_stdout(value); __primitives__.write_stdout("\n")
PrintBytes ==
    <<116, 0, 106, 1, 124, 0, 131, 1, 1, 0,
      116, 0, 106, 1, 100, 1, 131, 1, 1, 0, 100, 0, 83, 0>>

\* The body of pythonlib/builtins.py: def print(value): ...
BuiltinsBytes == <<100, 0, 100, 1, 132, 0, 90, 0, 100, 2, 83, 0>>

\* The body of the module of test_hello_world: print(s)
HelloBytes == <<101, 0, 100, 0, 131, 1, 1, 0, 100, 1, 83, 0>>

\* A module body that loads a name nothing binds, and one that only returns.
RaisingBytes == <<101, 0, 83, 0>>
ReturningBytes == <<100, 0, 83, 0>>

\* A Code as the arm c of read_object builds it.
NewCode(argcount, flags, bytes, consts, names, varnames, name) ==
    [argcount |-> argcount, kwonlyargcount |-> 0, flags |-> flags,
     code |-> bytes, consts |-> consts, names |-> names, varnames |-> varnames,
     name |-> name,
     instructions |-> collect(InstructionDecoder_new(bytes), <<>>).instructions,
     ninstructions |-> Len(collect(InstructionDecoder_new(bytes), <<>>).instructions)]

(* What marshal::read_object leaves in the store for a module file whose   *)
(* root is a code object: the constants, depth first, then the code        *)
(* object.  The objects a Code only copies from (its bytes, the tuples,    *)
(* the names, the file name) are left out: no instruction reaches them.    *)
(* value is the root reference.                                            *)
read_code_object(m, body) ==
    CASE body = "pythonlib" ->
            LET newline == NextRef(m)
                m1 == allocate(m, None, str_type, CString("\n"))
                print_code == NextRef(m1)
                m2 == allocate(m1, None, code_type,
                          CCode(NewCode(1, 67, PrintBytes, <<none, newline>>,
                                        <<"__primitives__", "write_stdout">>,
                                        <<"value">>, "print")))
                print_name == NextRef(m2)
                m3 == allocate(m2, None, str_type, CString("print"))
            IN  [m |-> allocate(m3, None, code_type,
                          CCode(NewCode(0, 64, BuiltinsBytes,
                                        <<print_code, print_name, none>>,
                                        <<"print">>, <<>>, "<module>"))),
                 value |-> NextRef(m3)]
      [] body = "raising" ->
            [m |-> allocate(m, None, code_type,
                      CCode(NewCode(0, 64, RaisingBytes, <<none>>,
                                    <<"undefined">>, <<>>, "<module>"))),
             value |-> NextRef(m)]
      [] body = "returning" ->
            [m |-> allocate(m, None, code_type,
                      CCode(NewCode(0, 64, ReturningBytes, <<none>>,
                                    <<>>, <<>>, "<module>"))),
             value |-> NextRef(m)]

\* The module files whose root is a code object, and those whose bytes the
\* decoder reads to their end: None, the null object, an unknown tag,
\* nothing.
CodeFiles == {"pythonlib", "raising", "returning"}
ByteFiles == {<<78>>, <<48>>, <<63>>, <<>>}

(* marshal::read_object(&mut module_bytecode, &mut state.store, ...) on    *)
(* the body of a module file.                                              *)
unmarshal(m, file) ==
    IF file.kind = "code"
    THEN LET r == read_code_object(m, file.body)
         IN  [m |-> r.m, err |-> None, value |-> r.value]
    ELSE LET d == read_object([reader |-> file.body, store |-> m.store,
                               ref_id |-> m.ref_id, version |-> m.version,
                               references |-> <<>>, panic |-> "", err |-> None,
                               value |-> None, calls |-> 0])
         IN  [m |-> [m EXCEPT !.store = d.store, !.ref_id = d.ref_id,
                              !.version = d.version, !.panic = d.panic],
              err |-> d.err, value |-> d.value]

\* new_module
new_module(m, name, code) == allocate(m, Some(name), module, CModule(code))

(* get_module_code on the file that envproxy.open_module(name) opens.      *)
(* marshal::check_magic is not part of the sources: file.magic is what it  *)
(* answers for the header of the file.  result is the PyResult::Return.    *)
get_module_code(m, module_name, file) ==
    IF ~file.magic THEN Panic(m, "Bad magic number for module")
    ELSE LET r == unmarshal(m, file)
         IN  IF r.m.panic # "" THEN r.m
             ELSE IF IsSome(r.err) THEN raise_processor_error(r.m, "UnmarshalError")
             ELSE [new_module(r.m, module_name, r.value)
                      EXCEPT !.result = Some(NextRef(r.m))]

\* py_try! that goes on whatever the callee did.
py_try_unchecked(m) == TRUE

\* py_try!: the PyResult is a Return, whose value the caller goes on with.
py_try(m) == m.panic = "" /\ IsSome(m.result)

(* call_module_code, up to its call of run_code: the module object is      *)
(* allocated, its globals are registered and its frame is pushed.          *)
call_module_code(m, stack, module_name, module_ref) ==
    LET content == m.store[module_ref].content
    IN  IF content.type # "Module" THEN Panic(m, "Not a module")
        ELSE IF m.store[content.code].content.type # "Code"
        THEN raise_processor_error(m, "NotACodeObject")
        ELSE LET code == m.store[content.code].content.code
                 m1 == new_module(m, module_name, content.code)
             IN  [m1 EXCEPT !.modules = Insert(@, module_name, EmptyDict),
                            !.call_stack =
                                Append(stack, NewFrame(NextRef(m), code,
                                                       SharedLocals(module_name))),
                            !.result = None]

\* The literals of the main module.
Literals == {"Hello world", "hello world", "", "a", "\n"}

\* The objects of the main module, which the caller of call_main_code
\* unmarshalled: the literal and the code object.
literal == NbPrimitiveObjects
user_code == NbPrimitiveObjects + 1
NbUserObjects == NbPrimitiveObjects + 2

UserCodes(s) ==
    {NewCode(0, 64, HelloBytes, <<literal, none>>, <<"print">>, <<>>, "<module>"),
     NewCode(0, 64, ReturningBytes, <<literal>>, <<>>, <<>>, "<module>")}

BuiltinsFilesOpened ==
    [magic : BOOLEAN, kind : {"code"}, body : CodeFiles]
    \cup [magic : BOOLEAN, kind : {"bytes"}, body : ByteFiles]

(* call_main_code(state, code_ref) is entered: reader is the file that     *)
(* open_module("builtins") opens.                                          *)
InitMain ==
    /\ \E s \in Literals : \E code \in UserCodes(s) :
          store = PrimitiveObjects
                  @@ (literal :> new_instance(literal, None, str_type, CString(s)))
                  @@ (user_code :> new_instance(user_code, None, code_type,
                                                CCode(code)))
    /\ CURRENT_REF_ID = NbUserObjects
    /\ CURRENT_VERSION = NbUserObjects
    /\ reader \in BuiltinsFilesOpened
    /\ phase = "call_main_code"
    /\ call_stack = <<>>
    /\ modules = EmptyDict
    /\ status = "running"
    /\ error = ""
    /\ result = None
    /\ stdout = <<>>
    /\ instruction = None
    /\ unwind_args = None
    /\ steps = 0
    /\ other_store = <<>>
    /\ reserved = {}
    /\ references = <<>>
    /\ decoder = <<>>

\* A step of call_main_code outside run_code made the machine m.
CommitPhase(m, ph) ==
    /\ store' = m.store
    /\ CURRENT_REF_ID' = m.ref_id
    /\ CURRENT_VERSION' = m.version
    /\ call_stack' = m.call_stack
    /\ modules' = m.modules
    /\ stdout' = m.stdout
    /\ status' = IF m.panic # "" THEN "panic" ELSE "running"
    /\ error' = m.panic
    /\ result' = m.result
    /\ instruction' = None
    /\ unwind_args' = m.unwind_args
    /\ steps' = steps + 1
    /\ phase' = ph
    /\ UNCHANGED <<other_store, reserved, reader, references, decoder>>

\* let builtins_code_ref = py_try!(get_module_code(state, "builtins"))
ExecGetModuleCode ==
    /\ status = "running" /\ phase = "call_main_code"
    /\ CommitPhase(get_module_code(Machine, "builtins", reader), "get_module_code")

\* py_try!(call_module_code(state, &mut call_stack, "builtins", ...)), up
\* to run_code, on a new call stack
ExecCallBuiltinsCode ==
    /\ status = "running" /\ phase = "get_module_code"
    /\ py_try([Machine EXCEPT !.result = result])
    /\ CommitPhase(call_module_code(Machine, <<>>, "builtins", Unwrap(result)),
                   "builtins")

\* One turn of the loop of run_code, on the builtins or on the main module.
ExecRunCode ==
    /\ status = "running" /\ phase \in {"builtins", "__main__"}
    /\ Commit(IF IsSome(fetched(Machine)) THEN Unwrap(fetched(Machine))
              ELSE <<"InvalidProgramCounter">>,
              run_code(Machine))

(* run_code returned for the builtins module: the main module is allocated *)
(* and call_module_code pushes its frame on a new call stack.              *)
ExecCallMainCode ==
    /\ phase = "builtins"
    /\ status \in {"Return", "panic"}
    /\ py_try([Machine EXCEPT !.result = result, !.panic = error])
    /\ LET m == new_module(Machine, "__main__", user_code)
       IN  CommitPhase(call_module_code(m, <<>>, "__main__", NextRef(Machine)),
                       "__main__")

NextMain ==
    \/ ExecGetModuleCode
    \/ ExecCallBuiltinsCode
    \/ ExecRunCode
    \/ ExecCallMainCode

SpecMain == InitMain /\ [][NextMain]_vars

----------------------------------------------------------------------------
(* C28: the module of test_hello_world, for each literal.                  *)

\* The main module is print(s) and builtins is pythonlib/builtins.py.
HelloWorld ==
    /\ store[user_code].content.code.code = HelloBytes
    /\ reader = [magic |-> TRUE, kind |-> "code", body |-> "pythonlib"]

\* run_code returned for the main module.
MainReturned == phase = "__main__" /\ status = "Return"

(* C28: running the module that loads print, pushes the literal s, calls   *)
(* print with it and returns writes s, then one newline, and nothing else; *)
(* the run goes on until run_code returns PyResult::Return for the main    *)
(* module, and nothing is written after s and the newline.                 *)
C28_HelloWorld ==
    HelloWorld
    => LET s == store[literal].content.s IN
       /\ status \in {"running", "Return"}
       /\ stdout \in {<<>>, <<s>>, <<s, "\n">>}
       /\ MainReturned => stdout = <<s, "\n">> /\ IsSome(result)
       /\ MainReturned \/ ENABLED NextMain

\* "Hello world" and the newline are on the sink when the run has ended.
C28_Witness ==
    /\ HelloWorld /\ MainReturned
    /\ stdout = <<"Hello world", "\n">>

----------------------------------------------------------------------------
(* C29: builtins before the main module.                                   *)

\* The code of the main module.
UserCode == store[user_code].content.code

\* A turn of run_code on a frame of the main module.
UserInstructionExecutes ==
    /\ status = "running" /\ call_stack # <<>>
    /\ Last(call_stack).code = UserCode
    /\ instruction' # None /\ steps' = steps + 1

\* call_main_code goes from the builtins module to the main module.
MainModuleStarts == phase # "__main__" /\ phase' = "__main__"

(* C29: the builtins module is opened, decoded and run to a normal return  *)
(* on a call stack of its own before the first instruction of the main     *)
(* module executes: the main module starts only from the state in which    *)
(* run_code returned for builtins with its call stack emptied, on a new    *)
(* call stack that holds the frame of the main module alone; an            *)
(* instruction of the main module executes only after that; while builtins *)
(* is loaded and run no frame is one of the main module; and nothing       *)
(* executes after a step that did not end normally.                        *)
C29_BuiltinsFirst ==
    [][/\ MainModuleStarts
          => /\ phase = "builtins" /\ status = "Return" /\ IsSome(result)
             /\ call_stack = <<>>
             /\ "builtins" \in DOMAIN modules
             /\ Len(call_stack') = 1
             /\ call_stack'[1].code = UserCode
       /\ UserInstructionExecutes
          => phase = "__main__" /\ "builtins" \in DOMAIN modules
       /\ phase' # "__main__"
          => \A i \in 1..Len(call_stack') : call_stack'[i].code # UserCode
       /\ status # "panic"]_vars

\* The first instruction of the main module has executed, print being
\* bound by the builtins module that returned.
C29_Witness ==
    /\ phase = "__main__"
    /\ instruction = Some(<<"LoadName", 0>>)
    /\ Len(call_stack) = 1 /\ call_stack[1].code = UserCode
    /\ "print" \in DOMAIN modules["builtins"]

----------------------------------------------------------------------------
(* run_module (lib.rs): the header of a bytecode stream is read, then the  *)
(* marshalled module.                                                      *)

\* The first two bytes of the magic of the streams of the tests (lib.rs,
\* tests/test_basic.rs), and of two headers of no release.
MagicSamples == {<<238, 12>>, <<51, 13>>, <<0, 0>>, <<255, 255>>}

\* A 12-byte header: the magic, then the fields nothing reads.
Header(magic) == magic \o <<13, 10, 0, 0, 0, 0, 0, 0, 0, 0>>

\* The little-endian number in the first 2 bytes of a header.
Version(buf) == buf[1] + 256 * buf[2]

\* The stream is a header, whole or cut short, and at most one marshalled
\* object.
InitRunModule ==
    /\ \E magic \in MagicSamples, body \in Inputs(1), cut \in {0, 1} :
          reader = IF cut = 1 THEN SubSeq(Header(magic), 1, 4)
                   ELSE Header(magic) \o body
    /\ phase = "run_module"
    /\ decoder = [buf |-> <<>>]
    /\ references = <<>>
    /\ store = PrimitiveObjects
    /\ CURRENT_REF_ID = NbPrimitiveObjects
    /\ CURRENT_VERSION = NbPrimitiveObjects
    /\ other_store = <<>>
    /\ reserved = {}
    /\ call_stack = <<>>
    /\ modules = <<>>
    /\ status = "running"
    /\ error = ""
    /\ result = None
    /\ stdout = <<>>
    /\ instruction = None
    /\ unwind_args = None
    /\ steps = 0

\* try!(reader.read_exact(&mut buf).map_err(InterpreterError::Io))
ExecReadHeader ==
    /\ status = "running" /\ phase = "run_module"
    /\ LET d == read_exact(Decoder, 12) IN
       /\ reader' = d.reader
       /\ decoder' = [buf |-> IF Failed(d) THEN <<>> ELSE d.value]
       /\ status' = IF Failed(d) THEN "Err" ELSE "running"
       /\ error' = IF Failed(d) THEN Unwrap(d.err) ELSE ""
    /\ phase' = "read_exact"
    /\ steps' = steps + 1
    /\ UNCHANGED <<store, CURRENT_REF_ID, CURRENT_VERSION, references, result,
                   instruction, other_store, reserved, call_stack, modules,
                   stdout, unwind_args>>

(* let module = try!(marshal::read_object(reader, &mut store)...): nothing *)
(* stands between the header and the decoding of the module.               *)
ExecReadModule ==
    /\ phase = "read_exact"
    /\ ReadObject
    /\ phase' = "read_object"

NextRunModule ==
    \/ ExecReadHeader
    \/ ExecReadModule

SpecRunModule == InitRunModule /\ [][NextRunModule]_vars

\* Version numbers no supported range holds: below every release, and
\* above every upper bound a 16-bit number can be under.
UnsupportedVersions == {0, 65535}

(* C30: a bytecode stream whose version number is below the supported      *)
(* range or at or above its upper bound is rejected before any marshalled  *)
(* value is decoded or any object is allocated for it.                     *)
C30_MagicIsValidated ==
    (decoder.buf # <<>> /\ Version(decoder.buf) \in UnsupportedVersions)
    => /\ phase # "read_object"
       /\ status # "Ok"
       /\ store = PrimitiveObjects
       /\ CURRENT_REF_ID = NbPrimitiveObjects

----------------------------------------------------------------------------
(* native_issubclass (primitives/mod.rs), one turn of its while-let loop   *)
(* at a time: references is to_visit, reserved is visited, decoder holds   *)
(* the two arguments.                                                      *)

\* One turn of the loop that enqueues the bases of the first class only.
issubclass_turn_direct_bases(objs, to_visit, visited, second) ==
    LET candidate == Head(to_visit) IN
    IF candidate \in visited
    THEN [to_visit |-> Tail(to_visit), visited |-> visited, returned |-> None]
    ELSE IF candidate = second
    THEN [to_visit |-> Tail(to_visit), visited |-> visited \cup {candidate},
          returned |-> Some(TRUE)]
    ELSE [to_visit |-> Tail(to_visit)
                       \o (IF visited = {} /\ IsSome(objs[candidate].bases)
                           THEN Unwrap(objs[candidate].bases) ELSE <<>>),
          visited |-> visited \cup {candidate}, returned |-> None]

(* One turn of the loop, to_visit holding a candidate: the queue and the   *)
(* set after it, and the value returned if the turn returns.               *)
issubclass_turn(objs, to_visit, visited, second) ==
    LET candidate == Head(to_visit) IN
    IF candidate \in visited
    THEN [to_visit |-> Tail(to_visit), visited |-> visited, returned |-> None]
    ELSE IF candidate = second
    THEN [to_visit |-> Tail(to_visit), visited |-> visited \cup {candidate},
          returned |-> Some(TRUE)]
    ELSE [to_visit |-> Tail(to_visit)
                       \o (IF IsSome(objs[candidate].bases)
                           THEN Unwrap(objs[candidate].bases) ELSE <<>>),
          visited |-> visited \cup {candidate}, returned |-> None]

\* The lists of bases drawn for a class: at most MaxBases classes, none
\* twice.
MaxBases == 2
GraphClasses == {0, 1, 2}

RECURSIVE BasesUpTo(_)
BasesUpTo(n) ==
    IF n = 0 THEN {<<>>}
    ELSE BasesUpTo(n - 1)
         \cup {Append(b, c) : b \in {x \in BasesUpTo(n - 1) : Len(x) = n - 1},
                              c \in GraphClasses}

BasesLists == {b \in BasesUpTo(MaxBases) :
                  \A i, j \in 1..Len(b) : i # j => b[i] # b[j]}

\* The class graphs: any bases, cycles included; an object may have none.
ClassGraphs ==
    [GraphClasses -> [bases : {None} \cup {Some(b) : b \in BasesLists}]]

(* Either the store of PrimitiveObjects::new and two of its objects, or a  *)
(* class graph and two of its classes.                                     *)
InitSubclass ==
    /\ \/ /\ store = PrimitiveObjects
          /\ \E first, second \in DOMAIN PrimitiveObjects :
                decoder = [first |-> first, second |-> second]
       \/ /\ store \in ClassGraphs
          /\ \E first, second \in GraphClasses :
                decoder = [first |-> first, second |-> second]
    /\ references = <<decoder.first>>
    /\ reserved = {}
    /\ status = "running"
    /\ result = None
    /\ CURRENT_REF_ID = NbPrimitiveObjects
    /\ CURRENT_VERSION = NbPrimitiveObjects
    /\ other_store = <<>>
    /\ reader = <<>>
    /\ phase = ""
    /\ call_stack = <<>>
    /\ modules = <<>>
    /\ error = ""
    /\ stdout = <<>>
    /\ instruction = None
    /\ unwind_args = None
    /\ steps = 0

\* while let Some(candidate) = to_visit.pop_front() { ... }; false
IssubclassTurn ==
    /\ status = "running" /\ phase = ""
    /\ IF references = <<>>
       THEN /\ result' = Some(FALSE)
            /\ status' = "returned"
            /\ UNCHANGED <<references, reserved>>
       ELSE LET t == issubclass_turn(store, references, reserved, decoder.second)
            IN  /\ references' = t.to_visit
                /\ reserved' = t.visited
                /\ result' = t.returned
                /\ status' = IF IsSome(t.returned) THEN "returned" ELSE "running"
    /\ steps' = steps + 1
    /\ UNCHANGED <<store, CURRENT_REF_ID, CURRENT_VERSION, other_store, reader,
                   decoder, phase, call_stack, modules, error, stdout,
                   instruction, unwind_args>>

NextSubclass == IssubclassTurn

SpecSubclass == InitSubclass /\ [][NextSubclass]_vars

----------------------------------------------------------------------------
(* C31: the hierarchy of the bootstrap classes.                            *)

\* native_issubclass returned this answer for these arguments on the
\* bootstrap store.
Answered(first, second, answer) ==
    (/\ store = PrimitiveObjects /\ status = "returned"
     /\ decoder = [first |-> first, second |-> second])
    => result = Some(answer)

(* C31: on the bootstrap store native_issubclass is reflexive; NameError,  *)
(* AttributeError, TypeError, StopIteration and LookupError are subclasses *)
(* of Exception, KeyError of LookupError, each of them and Exception of    *)
(* BaseException; ProcessorError is a subclass of BaseException and not of *)
(* Exception, and Exception is not a subclass of ProcessorError.           *)
C31_BootstrapHierarchy ==
    /\ \A c \in DOMAIN PrimitiveObjects : Answered(c, c, TRUE)
    /\ \A e \in {nameerror, attributeerror, typeerror, stopiteration, lookuperror} :
          Answered(e, exception, TRUE)
    /\ Answered(keyerror, lookuperror, TRUE)
    /\ Answered(keyerror, exception, TRUE)
    /\ \A e \in {nameerror, attributeerror, typeerror, stopiteration, lookuperror,
                 keyerror, exception, processorerror} :
          Answered(e, baseexception, TRUE)
    /\ Answered(processorerror, exception, FALSE)
    /\ Answered(exception, processorerror, FALSE)
    /\ (store = PrimitiveObjects /\ status = "returned")
       => result = Some(native_issubclass(store, decoder.first, decoder.second))

\* KeyError was found to be a subclass of BaseException, three bases up.
C31_Witness ==
    /\ store = PrimitiveObjects /\ status = "returned"
    /\ decoder = [first |-> keyerror, second |-> baseexception]
    /\ result = Some(TRUE)
    /\ reserved = {keyerror, lookuperror, exception, baseexception}

----------------------------------------------------------------------------
(* C32: the bytes of test_load_read.                                       *)

(* C32: the bytes [124, 1, 0, 83] decode to LoadFast(1), Nop, Nop,         *)
(* ReturnValue: an opcode with a two-byte argument is followed by two Nops *)
(* and the instruction that starts at byte offset 3 is at index 3.         *)
C32_TestLoadRead ==
    (decoder.code = <<124, 1, 0, 83>> /\ status # "running")
    => /\ status = "collected"
       /\ decoder.instructions
             = <<<<"LoadFast", 1>>, <<"Nop">>, <<"Nop">>, <<"ReturnValue">>>>

----------------------------------------------------------------------------
(* call_main_code on main modules with loops, branches, handlers, global   *)
(* stores and functions: the builtins module is pythonlib/builtins.py.     *)

MaxDepth == 3
MaxEntries == 2

\* for x in <tuple>: pass
\*   0 SETUP_LOOP  1 LOAD_CONST 0  2 GET_ITER  3 FOR_ITER -> 6  4 POP_TOP
\*   5 JUMP_ABSOLUTE 3  6 POP_BLOCK  7 LOAD_CONST 1  8 RETURN_VALUE
LoopBytes == <<120, 12, 100, 0, 68, 0, 93, 4, 1, 0, 113, 6, 87, 0, 100, 1, 83, 0>>

\* 0 LOAD_CONST 0  1 POP_JUMP_IF_FALSE t  2 LOAD_CONST 1  3 RETURN_VALUE
\* 4 LOAD_CONST 1  5 RETURN_VALUE
BranchBytes(t) == <<100, 0, 114, t, 100, 1, 83, 0, 100, 1, 83, 0>>
BranchTargets == {2, 4, 8}

\* global x; x = <literal>; return x
GlobalBytes == <<100, 0, 97, 0, 116, 0, 83, 0>>

\* try: (try: undefined, no clause matches) except: return
\*   0 SETUP_EXCEPT -> 4  1 SETUP_EXCEPT -> 3  2 LOAD_NAME 0  3 END_FINALLY
\*   4 LOAD_CONST 0  5 RETURN_VALUE
ReraiseBytes == <<121, 6, 121, 2, 101, 0, 88, 0, 100, 0, 83, 0>>

\* The same with raise __primitives__.<class>() for the name:
\*   0 SETUP_EXCEPT -> 9  1 SETUP_EXCEPT -> 8  2 LOAD_NAME 0  3 LOAD_ATTR 1
\*   4 CALL_FUNCTION 0  5 RAISE_VARARGS 1 (and its two Nops)  8 END_FINALLY
\*   9 LOAD_CONST 0  10 RETURN_VALUE
ReraiseUserBytes ==
    <<121, 16, 121, 12, 101, 0, 106, 1, 131, 0, 130, 0, 1, 0, 88, 0, 100, 0, 83, 0>>

RECURSIVE Repeat(_, _)
Repeat(s, n) == IF n = 0 THEN <<>> ELSE s \o Repeat(s, n - 1)

\* j entries pushed, then try: undefined / except: pass, whose handler pops
\* the exception triple before POP_EXCEPT:
\*   j SETUP_EXCEPT -> j+2  j+1 LOAD_NAME 0  j+2..j+4 POP_TOP  j+5 POP_EXCEPT
\*   j+6 LOAD_CONST 0  j+7 RETURN_VALUE
HandlerBytes(j) ==
    Repeat(<<100, 0>>, j)
    \o <<121, 2, 101, 0, 1, 0, 1, 0, 1, 0, 89, 0, 100, 0, 83, 0>>

\* def f(*, x=<literal>): x; x = None; return x  -- then f(); return f()
\*   0 LOAD_CONST 0  1 LOAD_CONST 1  2 LOAD_CONST 2  3 MAKE_FUNCTION 2
\*   4 STORE_NAME 0  5 LOAD_NAME 0  6 CALL_FUNCTION 0  7 POP_TOP
\*   8 LOAD_NAME 0  9 CALL_FUNCTION 0  10 RETURN_VALUE
DefBytes ==
    <<100, 0, 100, 1, 100, 2, 132, 2, 90, 0, 101, 0, 131, 0, 1, 0,
      101, 0, 131, 0, 83, 0>>
\*   0 LOAD_FAST 0  1 POP_TOP  2 LOAD_CONST 0  3 STORE_FAST 0  4 LOAD_FAST 0
\*   5 RETURN_VALUE
FBytes == <<124, 0, 1, 0, 100, 0, 125, 0, 124, 0, 83, 0>>
\* ... x = None; return f()
\*   4 LOAD_GLOBAL 0  5 CALL_FUNCTION 0  6 RETURN_VALUE
FRecBytes == <<124, 0, 1, 0, 100, 0, 125, 0, 116, 0, 131, 0, 83, 0>>

\* The objects unmarshalled after the literal and the module's code.
key_x == NbPrimitiveObjects + 2
kwdefaults_dict == NbPrimitiveObjects + 3
inner_code == NbPrimitiveObjects + 4
inner_name == NbPrimitiveObjects + 5

ModuleCode(bytes, consts, names, varnames) ==
    NewCode(0, 64, bytes, consts, names, varnames, "<module>")

Unmarshalled(class, content) == [class |-> class, content |-> content]

\* The main modules: the objects read_object leaves in the store, the
\* literal first and the module's code second.
LoopPrograms ==
    {<<Unmarshalled(tuple_type, CTuple([i \in 1..k |-> none])),
       Unmarshalled(code_type,
           CCode(ModuleCode(LoopBytes, <<literal, none>>, <<>>, <<>>)))>>
        : k \in 0..MaxLen}

BranchPrograms ==
    {<<Unmarshalled(str_type, CString("a")),
       Unmarshalled(code_type,
           CCode(ModuleCode(BranchBytes(t), <<b, literal>>, <<>>, <<>>)))>>
        : b \in {true_obj, false_obj, none}, t \in BranchTargets}

GlobalPrograms ==
    {<<Unmarshalled(str_type, CString("a")),
       Unmarshalled(code_type,
           CCode(ModuleCode(GlobalBytes, <<literal>>, <<"x">>, vn)))>>
        : vn \in {<<>>, <<"x">>, <<"y">>}}

ReraisePrograms ==
    {<<Unmarshalled(str_type, CString("a")),
       Unmarshalled(code_type,
           CCode(ModuleCode(ReraiseBytes, <<literal>>, <<"undefined">>, <<>>)))>>}

ReraiseUserPrograms ==
    {<<Unmarshalled(str_type, CString("a")),
       Unmarshalled(code_type,
           CCode(ModuleCode(ReraiseUserBytes, <<literal>>,
                            <<"__primitives__", c>>, <<>>)))>>
        : c \in {"KeyError", "NameError"}}

HandlerPrograms ==
    {<<Unmarshalled(str_type, CString("a")),
       Unmarshalled(code_type,
           CCode(ModuleCode(HandlerBytes(j), <<literal>>, <<"undefined">>, <<>>)))>>
        : j \in 0..MaxEntries}

FunctionPrograms ==
    {<<Unmarshalled(str_type, CString("a")),
       Unmarshalled(code_type,
           CCode(ModuleCode(DefBytes, <<kwdefaults_dict, inner_code, inner_name, none>>,
                            <<"f">>, <<>>))),
       Unmarshalled(str_type, CString("x")),
       Unmarshalled(object, CDict(<<<<key_x, literal>>>>)),
       Unmarshalled(code_type,
           CCode([NewCode(0, 67, fbytes, <<none>>, <<"f">>, <<"x">>, "f")
                     EXCEPT !.kwonlyargcount = 1])),
       Unmarshalled(str_type, CString("f"))>>
        : fbytes \in {FBytes, FRecBytes}}

Programs ==
    LoopPrograms
    \cup BranchPrograms
    \cup GlobalPrograms
    \cup ReraisePrograms
    \cup ReraiseUserPrograms
    \cup HandlerPrograms
    \cup FunctionPrograms

InitRun ==
    /\ \E prog \in Programs :
          /\ store = PrimitiveObjects
                     @@ [i \in NbPrimitiveObjects .. NbPrimitiveObjects + Len(prog) - 1 |->
                            new_instance(i, None, prog[i - NbPrimitiveObjects + 1].class,
                                         prog[i - NbPrimitiveObjects + 1].content)]
          /\ CURRENT_REF_ID = NbPrimitiveObjects + Len(prog)
          /\ CURRENT_VERSION = NbPrimitiveObjects + Len(prog)
    /\ reader = [magic |-> TRUE, kind |-> "code", body |-> "pythonlib"]
    /\ phase = "call_main_code"
    /\ call_stack = <<>>
    /\ modules = EmptyDict
    /\ status = "running"
    /\ error = ""
    /\ result = None
    /\ stdout = <<>>
    /\ instruction = None
    /\ unwind_args = None
    /\ steps = 0
    /\ other_store = <<>>
    /\ reserved = {}
    /\ references = <<>>
    /\ decoder = <<>>

\* A turn of the loop of run_code made the machine m, on call stacks of at
\* most MaxDepth frames.
CommitProgram(ins, m) ==
    /\ Len(m.call_stack) <= MaxDepth
    /\ store' = m.store
    /\ CURRENT_REF_ID' = m.ref_id
    /\ CURRENT_VERSION' = m.version
    /\ call_stack' = m.call_stack
    /\ modules' = m.modules
    /\ stdout' = m.stdout
    /\ status' = IF m.panic # "" THEN "panic"
                 ELSE IF IsSome(m.result) THEN "Return" ELSE "running"
    /\ error' = m.panic
    /\ result' = m.result
    /\ instruction' = Some(ins)
    /\ unwind_args' = m.unwind_args
    /\ steps' = steps + 1
    /\ UNCHANGED aux

\* One turn of the loop of run_code, on the builtins or on the main module.
ExecRunProgram ==
    /\ status = "running" /\ phase \in {"builtins", "__main__"}
    /\ CommitProgram(IF IsSome(fetched(Machine)) THEN Unwrap(fetched(Machine))
                     ELSE <<"InvalidProgramCounter">>,
                     run_code(Machine))

NextRun ==
    \/ ExecGetModuleCode
    \/ ExecCallBuiltinsCode
    \/ ExecRunProgram
    \/ ExecCallMainCode

SpecRun == InitRun /\ [][NextRun]_vars

----------------------------------------------------------------------------
(* C33: the block stack over a for loop.                                   *)

\* The frame of the main module runs the for loop of LoopBytes, which
\* SETUP_LOOP enters on an empty block stack.
RunsLoop ==
    /\ phase = "__main__" /\ call_stack # <<>>
    /\ call_stack[1].code.code = LoopBytes

(* C33: block markers are balanced over a for loop: once SETUP_LOOP, the   *)
(* FOR_ITER steps that yield, the exhausting FOR_ITER and the loop's       *)
(* POP_BLOCK have run, the frame's block stack is what it was before       *)
(* SETUP_LOOP (here empty): no ExceptPopGoto or Loop marker remains.       *)
C33_LoopBlocksBalanced ==
    (RunsLoop /\ status = "running" /\ instruction = Some(<<"PopBlock">>))
        => call_stack[1].block_stack = <<>>

----------------------------------------------------------------------------
(* C34: PopJumpIfFalse against JumpAbsolute.                               *)

\* The executing frame is at PopJumpIfFalse(t) with an entry on its stack.
AtPopJumpIfFalse ==
    /\ status = "running" /\ phase = "__main__" /\ call_stack # <<>>
    /\ IsSome(fetched(Machine))
    /\ Unwrap(fetched(Machine))[1] = "PopJumpIfFalse"
    /\ Top(Machine).var_stack # <<>>

TopContent == store[Last(Top(Machine).var_stack)].content.type

(* C34: PopJumpIfFalse(t) with False on top of the stack continues at the   *)
(* instruction JumpAbsolute(t) continues at, with True on top it continues *)
(* at the next instruction, and in both cases exactly one entry is popped. *)
C34_PopJumpIfFalse ==
    [][(AtPopJumpIfFalse /\ TopContent \in {"True", "False"})
       => /\ status' = "running"
          /\ Last(call_stack').var_stack = Front(Top(Machine).var_stack)
          /\ TopContent = "True"
             => Last(call_stack').program_counter = Top(Machine).program_counter + 1
          /\ TopContent = "False"
             => Last(call_stack').program_counter
                   = Top(JumpAbsolute(Machine, Unwrap(fetched(Machine))[2])).program_counter
      ]_vars

----------------------------------------------------------------------------
(* C35: StoreGlobal then LoadGlobal with the same index.                   *)

\* The frame of the main module runs global x; x = <literal>; return x.
RunsGlobal ==
    /\ phase = "__main__" /\ call_stack # <<>>
    /\ call_stack[1].code.code = GlobalBytes

(* C35: after StoreGlobal(i) stored v, LoadGlobal(i) on the same code       *)
(* object, nothing shadowing the name, pushes v: both resolve i through    *)
(* the same name table.  Here v is the literal, and the step after         *)
(* StoreGlobal(0) is LoadGlobal(0).                                        *)
C35_GlobalRoundTrip ==
    [][(RunsGlobal /\ instruction = Some(<<"StoreGlobal", 0>>) /\ status = "running")
       => /\ status' = "running"
          /\ instruction' = Some(<<"LoadGlobal", 0>>)
          /\ Last(call_stack').var_stack = <<literal>>]_vars

----------------------------------------------------------------------------
(* C36: END_FINALLY with an unmatched exception on the stack.              *)

\* The executing frame is at EndFinally, the exception a handler was
\* entered with on top of its stack.
AtEndFinally ==
    /\ status = "running" /\ phase = "__main__" /\ call_stack # <<>>
    /\ IsSome(fetched(Machine))
    /\ Unwrap(fetched(Machine)) = <<"EndFinally">>
    /\ Top(Machine).var_stack # <<>>
    /\ native_isinstance(store, Last(Top(Machine).var_stack), baseexception)

\* The handler EndFinally runs in: the TryExcept marker on top of the block
\* stack.
Handler == Last(Top(Machine).block_stack)

(* C36: an exception no except clause matched is re-raised at END_FINALLY: *)
(* the TryExcept marker of the handler is removed, the same exception      *)
(* object goes on unwinding to the enclosing handler, which is entered     *)
(* with it on top of the stack, and the first handler is not entered       *)
(* again; for the exceptions the VM raises as for user-raised instances.   *)
C36_EndFinallyReraises ==
    [][AtEndFinally
       => /\ status' = "running"
          /\ unwind_args' # None
          /\ Unwrap(unwind_args').exception = Last(Top(Machine).var_stack)
          /\ \A i \in 1..Len(Last(call_stack').block_stack) :
                Last(call_stack').block_stack[i] # Handler
          /\ Last(call_stack').program_counter # Handler.end
          /\ Last(Last(call_stack').var_stack) = Last(Top(Machine).var_stack)]_vars

----------------------------------------------------------------------------
(* C37: POP_EXCEPT at the end of a handler.                                *)

\* The executing frame is at PopExcept, with the triple of the handled
\* exception on its stack and the handler's marker on its block stack.
AtPopExcept ==
    /\ status = "running" /\ phase = "__main__" /\ call_stack # <<>>
    /\ IsSome(fetched(Machine))
    /\ Unwrap(fetched(Machine)) = <<"PopExcept">>
    /\ Len(Top(Machine).var_stack) >= 3
    /\ Top(Machine).block_stack # <<>>
    /\ Last(Top(Machine).block_stack).type = "TryExcept"

(* C37: PopExcept removes the triple of the handled exception from the     *)
(* operand stack and the TryExcept marker of the handler from the block    *)
(* stack, and nothing else: the entries below the triple, which were on    *)
(* the stack before the try block was entered, stay in the same order.     *)
C37_PopExceptKeepsOlderEntries ==
    [][AtPopExcept
       => /\ status' = "running"
          /\ Last(call_stack').var_stack
                = SubSeq(Top(Machine).var_stack, 1, Len(Top(Machine).var_stack) - 3)
          /\ Last(call_stack').block_stack = Front(Top(Machine).block_stack)
          /\ Front(call_stack') = Front(call_stack)]_vars

----------------------------------------------------------------------------
(* C38: CallFunction on bytecode functions, primitive functions and        *)
(* classes.                                                                *)

\* Handles on primitive functions, as load_attr allocates them.
write_stdout_handle == NbCallObjects
isinstance_handle == NbCallObjects + 1
iter_handle == NbCallObjects + 2
NbCalleeObjects == NbCallObjects + 3

PrimitiveHandles ==
       (write_stdout_handle :>
            new_instance(write_stdout_handle, Some("write_stdout"), function_type,
                         CPrimitiveFunction("write_stdout")))
    @@ (isinstance_handle :>
            new_instance(isinstance_handle, Some("isinstance"), function_type,
                         CPrimitiveFunction("isinstance")))
    @@ (iter_handle :>
            new_instance(iter_handle, Some("iter"), function_type,
                         CPrimitiveFunction("iter")))

\* The callees: the bytecode function, a class, the primitive functions and
\* the handle on a primitive that is not in the registry.
Callees == {call_func, keyerror, write_stdout_handle, isinstance_handle,
            iter_handle, p}

(* The frame of the main module is about to execute CallFunction: under    *)
(* the callee lies an older entry, and the call is made inside or outside  *)
(* a try block.                                                            *)
InitCallee ==
    /\ \E code \in CallCodes, defaults \in CallDefaults, callee \in Callees,
          args \in SeqUpTo({first_value, second_value}, MaxArgs),
          keys \in SeqUpTo({key_a, key_k, key_z}, MaxKwargs),
          blocks \in {<<>>, <<TryExcept(0, 3)>>} :
          /\ callee # call_func
                => code.name = "f1" /\ defaults = EmptyDict
          /\ store = PrimitiveObjects @@ ProgramObjects
                     @@ CallObjects(code, defaults) @@ PrimitiveHandles
          /\ call_stack =
                <<[NewFrame(main_module, MainCode, SharedLocals("__main__"))
                      EXCEPT !.var_stack = <<none, callee>> \o args
                                           \o KeywordEntries(keys),
                             !.block_stack = blocks]>>
    /\ CURRENT_REF_ID = NbCalleeObjects
    /\ CURRENT_VERSION = NbCalleeObjects
    /\ modules = ("builtins" :> Builtins) @@ ("__main__" :> EmptyDict)
    /\ status = "running"
    /\ error = ""
    /\ result = None
    /\ stdout = <<>>
    /\ instruction = None
    /\ unwind_args = None
    /\ steps = 0
    /\ AuxInit

\* The call the frame is about to make.
ExecCallee == steps = 0 /\ ExecCallFunctionKw

NextCallee == ExecCallee

SpecCallee == InitCallee /\ [][NextCallee]_vars

CalleeIsPrimitiveOrClass(n, k) ==
    store[Callee(n, k)].content.type \in {"PrimitiveFunction", "Class"}

\* The caller's stack under the callee of CallFunction(n, k).
Below(n, k) ==
    SubSeq(Last(call_stack).var_stack, 1,
           Len(Last(call_stack).var_stack) - (n + 2 * k + 1))

\* What the claim says of the step that executed CallFunction(n, k).
CallEffect(n, k) ==
    /\ CalleeIsBytecode(n, k)
       => /\ Len(call_stack') = Len(call_stack) + 1
          /\ Last(call_stack').program_counter = 0
          /\ Last(call_stack').var_stack = <<>>
          /\ Last(call_stack').block_stack = <<>>
          /\ call_stack'[Len(call_stack)].var_stack = Below(n, k)
    /\ CalleeIsPrimitiveOrClass(n, k)
       => \/ /\ Len(call_stack') = Len(call_stack)
             /\ Len(Last(call_stack').var_stack) = Len(Below(n, k)) + 1
             /\ Front(Last(call_stack').var_stack) = Below(n, k)
          \/ unwind_args' # None

\* The step ended in a panic of the interpreter that is not an exception
\* of the program reaching the bottom of the call stack.
Aborted == status' = "panic" /\ error' # "UncaughtException"

----------------------------------------------------------------------------
(* C39: the locals of function activations and of module frames.           *)

\* The instruction the executing frame is at.
AtInstruction(op) ==
    /\ status = "running" /\ phase = "__main__" /\ call_stack # <<>>
    /\ IsSome(fetched(Machine))
    /\ Unwrap(fetched(Machine))[1] = op

Operand == Unwrap(fetched(Machine))[2]

\* The executing frame is an activation of a function, or a module's frame.
InFunction == ~IsSome(Top(Machine).locals.module)
InModule == IsSome(Top(Machine).locals.module)

\* The globals of the module the executing frame's object belongs to.
Globals == modules[module_of(store, Top(Machine).object)]

(* C39: a call of a bytecode function starts a frame with a locals map of  *)
(* its own that holds the function's keyword defaults; StoreFast in an     *)
(* activation binds the name there and changes no other frame, no module   *)
(* and no object, the function's defaults included; StoreName in a module  *)
(* frame binds the name in the module's globals; and a global lookup from  *)
(* a function of the module, nothing shadowing the name, pushes what the   *)
(* globals bind it to.                                                     *)
C39_LocalsOwnership ==
    [][/\ (AtInstruction("CallFunction") /\ Len(call_stack') = Len(call_stack) + 1)
          => LET callee == store[Last(call_stack').object].content
                 code == Last(call_stack').code
             IN  /\ Last(call_stack').locals.module = None
                 /\ \A name \in DOMAIN callee.defaults :
                       (\A i \in 1..code.argcount : code.varnames[i] # name)
                       => /\ name \in DOMAIN Last(call_stack').locals.map
                          /\ Last(call_stack').locals.map[name]
                                = callee.defaults[name]
       /\ (AtInstruction("StoreFast") /\ InFunction /\ status' = "running")
          => /\ store' = store
             /\ modules' = modules
             /\ Front(call_stack') = Front(call_stack)
             /\ Last(call_stack').locals.map[Top(Machine).code.varnames[Operand + 1]]
                   = Last(Top(Machine).var_stack)
       /\ (AtInstruction("StoreName") /\ InModule /\ status' = "running")
          => modules'[Unwrap(Top(Machine).locals.module)]
                     [Top(Machine).code.names[Operand + 1]]
                = Last(Top(Machine).var_stack)
       /\ (/\ AtInstruction("LoadGlobal") /\ InFunction
           /\ Operand < Len(Top(Machine).code.names)
           /\ Top(Machine).code.names[Operand + 1] \notin
                 DOMAIN Top(Machine).locals.map \cup DOMAIN modules["builtins"]
                 \cup {"__primitives__", "__name__"}
           /\ Top(Machine).code.names[Operand + 1] \in DOMAIN Globals)
          => /\ status' = "running"
             /\ Last(Last(call_stack').var_stack)
                   = Globals[Top(Machine).code.names[Operand + 1]]
      ]_vars

\* f stored None in x and called itself: the recursive activation starts
\* with the default of x, which the function object still holds.
C39_Witness ==
    /\ phase = "__main__" /\ Len(call_stack) = 3
    /\ instruction = Some(<<"CallFunction", 0, 0>>)
    /\ call_stack[2].object = call_stack[3].object
    /\ call_stack[2].locals.map = ("x" :> none)
    /\ call_stack[3].locals.map = ("x" :> literal)
    /\ store[call_stack[3].object].content.defaults = ("x" :> literal)
    /\ modules["__main__"] = ("f" :> call_stack[3].object)

----------------------------------------------------------------------------
(* state.rs: unwind, turn by turn.                                         *)

\* A turn of unwind that leaves a Loop marker on the block stack.
unwind_turn_keeps_loop(objs, frames, current, traceback, exc, value) ==
    IF ~IsSome(current)
    THEN IF frames = <<>>
         THEN [call_stack |-> frames, frame |-> None, outcome |-> "panic"]
         ELSE [call_stack |-> Front(frames), frame |-> Some(Last(frames)),
               outcome |-> ""]
    ELSE LET frame == Unwrap(current) IN
         IF frame.block_stack = <<>>
         THEN [call_stack |-> frames, frame |-> None, outcome |-> ""]
         ELSE IF Last(frame.block_stack).type = "Loop"
         THEN [call_stack |-> frames, frame |-> current, outcome |-> ""]
         ELSE LET r == unwind_block_stack_top_only(objs, frame, traceback, exc, value)
              IN  IF r.found
                  THEN [call_stack |-> Append(frames, r.frame), frame |-> None,
                        outcome |-> "handler"]
                  ELSE [call_stack |-> frames, frame |-> Some(r.frame),
                        outcome |-> ""]

(* One turn of a loop of unwind.  current is the frame the outer loop      *)
(* popped, if the while-let loop over its block stack is running.  With no *)
(* frame popped the outer loop pops one or panics on the empty call stack; *)
(* with one, the inner loop pops a marker: a Loop marker is dropped, a     *)
(* TryExcept marker and an ExceptPopGoto marker the exception matches put  *)
(* the frame back and end unwind, and the frame is dropped once it has no  *)
(* marker left.                                                            *)
unwind_turn(objs, frames, current, traceback, exc, value) ==
    IF ~IsSome(current)
    THEN IF frames = <<>>
         THEN [call_stack |-> frames, frame |-> None, outcome |-> "panic"]
         ELSE [call_stack |-> Front(frames), frame |-> Some(Last(frames)),
               outcome |-> ""]
    ELSE LET frame == Unwrap(current) IN
         IF frame.block_stack = <<>>
         THEN [call_stack |-> frames, frame |-> None, outcome |-> ""]
         ELSE LET block == Last(frame.block_stack)
                  popped == [frame EXCEPT !.block_stack = Front(@)]
              IN  CASE block.type = "Loop" ->
                         [call_stack |-> frames, frame |-> Some(popped),
                          outcome |-> ""]
                    [] block.type = "TryExcept" ->
                         [call_stack |->
                             Append(frames, [popped EXCEPT
                                !.block_stack =
                                    Append(@, TryExcept(block.begin, block.end)),
                                !.program_counter = block.end,
                                !.var_stack = @ \o <<traceback, value, exc,
                                                     traceback, value, exc>>]),
                          frame |-> None, outcome |-> "handler"]
                    [] block.type = "ExceptPopGoto" ->
                         IF native_isinstance(objs, exc, block.pattern)
                         THEN [call_stack |->
                                  Append(frames, [popped EXCEPT
                                     !.var_stack = pop_many(@, block.nb_pop).stack,
                                     !.program_counter = block.target]),
                               frame |-> None, outcome |-> "handler"]
                         ELSE [call_stack |-> frames, frame |-> Some(popped),
                               outcome |-> ""]

\* The call stacks unwind is entered with hold at most MaxFrames frames and
\* MaxMarkers block markers.
MaxMarkers == 3

\* The exception raised, an instance of KeyError.
raised == NbPrimitiveObjects

\* A loop, a try block, a for loop's marker and one for LookupError.
UnwindMarkers ==
    {Loop(0, 1), TryExcept(0, 1), ExceptPopGoto(stopiteration, 1, 1),
     ExceptPopGoto(lookuperror, 1, 1)}

RECURSIVE BlockStacks(_, _)
\* The block stacks of `frames` frames that hold at most `markers` markers.
BlockStacks(frames, markers) ==
    IF frames = 0 THEN {<<>>}
    ELSE UNION {{Append(rest, b) : rest \in BlockStacks(frames - 1, markers - Len(b))}
                   : b \in SeqUpTo(UnwindMarkers, markers)}

(* unwind(state, call_stack, none, raised, none) is entered.               *)
InitUnwind ==
    /\ store = PrimitiveObjects
               @@ (raised :> new_instance(raised, None, keyerror, COtherObject))
    /\ \E n \in 0..MaxFrames : \E blocks \in BlockStacks(n, MaxMarkers) :
          call_stack = [i \in 1..n |->
                           [NewFrame(main_module, MainCode, OwnLocals(EmptyDict))
                               EXCEPT !.var_stack = <<none>>,
                                      !.block_stack = blocks[i]]]
    /\ unwind_args = Some([traceback |-> none, exception |-> raised,
                           value |-> none, call_stack |-> call_stack])
    /\ decoder = None
    /\ phase = "unwind"
    /\ status = "running"
    /\ result = None
    /\ CURRENT_REF_ID = NbPrimitiveObjects + 1
    /\ CURRENT_VERSION = NbPrimitiveObjects + 1
    /\ other_store = <<>>
    /\ reader = <<>>
    /\ references = <<>>
    /\ reserved = {}
    /\ modules = <<>>
    /\ error = ""
    /\ stdout = <<>>
    /\ instruction = None
    /\ steps = 0

\* One turn of the outer loop or of the while-let loop of unwind; decoder
\* is the frame the outer loop popped.
UnwindTurn ==
    /\ status = "running" /\ phase = "unwind"
    /\ LET a == Unwrap(unwind_args)
           t == unwind_turn(store, call_stack, decoder, a.traceback, a.exception,
                            a.value)
       IN  /\ call_stack' = t.call_stack
           /\ decoder' = t.frame
           /\ status' = IF t.outcome = "" THEN "running" ELSE t.outcome
           /\ error' = IF t.outcome = "panic" THEN "UncaughtException" ELSE ""
    /\ UNCHANGED <<store, CURRENT_REF_ID, CURRENT_VERSION, other_store, reader,
                   references, reserved, phase, modules, stdout, result,
                   instruction, unwind_args, steps>>

InitTerminate == InitSubclass \/ InitUnwind

NextTerminate == IssubclassTurn \/ UnwindTurn

\* The loops go on: a turn that can be taken is taken.
SpecTerminate ==
    /\ InitTerminate /\ [][NextTerminate]_vars
    /\ WF_vars(IssubclassTurn) /\ WF_vars(UnwindTurn)

----------------------------------------------------------------------------
(* C40: unwind and native_issubclass terminate.                            *)

\* What unwind, run to its end, makes of the call stack it was entered
\* with.
Unwound ==
    unwind_call_stack(store, Unwrap(unwind_args).call_stack, none, raised, none)

(* C40: unwind terminates: it stops at a handler, the call stack not empty, *)
(* or has popped every frame and reports the uncaught exception; and       *)
(* native_issubclass returns an answer, also on a graph of bases that has  *)
(* a cycle.                                                                *)
C40_Terminates ==
    /\ <>(status # "running")
    /\ [](status = "handler"
             => /\ call_stack # <<>>
                /\ ~Unwound.panic /\ call_stack = Unwound.call_stack)
    /\ [](status = "panic"
             => /\ call_stack = <<>> /\ error = "UncaughtException"
                /\ Unwound.panic)
    /\ [](status = "returned" => result \in {Some(TRUE), Some(FALSE)})

\* native_issubclass(0, 2) answered false on the cycle 0 -> 1 -> 0, each
\* class visited once.
C40_Witness ==
    /\ phase = "" /\ status = "returned" /\ result = Some(FALSE)
    /\ store \in ClassGraphs
    /\ store[0].bases = Some(<<1>>) /\ store[1].bases = Some(<<0>>)
    /\ decoder = [first |-> 0, second |-> 2]
    /\ reserved = {0, 1}

====
